--------------------------- MODULE KbdlockProofs ---------------------------
(***************************************************************************)
(* Theorems about the running program, for every set of control            *)
(* connections and every number of timeouts, crashes and failures.         *)
(***************************************************************************)
EXTENDS Kbdlock, SequenceTheorems, TLAPS

-----------------------------------------------------------------------------
(* Type correctness. *)

USE CallersAssumption, TimeoutsAssumption, CrashesAssumption,
    FailuresAssumption, HotkeyAssumption, OrphanAssumption, TrayUpAssumption

\* A Send leaves well-typed queues behind (client.go Send, first half).
LEMMA SendTyped ==
  ASSUME IpcTypeOK, NEW g \in Goroutines, NEW c \in 0..dials,
         NEW cmd \in Commands, Send(g, c, cmd)
  PROVE  IpcTypeOK' /\ dials' = dials
BY DEF IpcTypeOK, Send

\* So does an answer that is read, however much of the pipe the read took.
LEMMA AnsweredTyped ==
  ASSUME IpcTypeOK, NEW g \in Goroutines, NEW r, Answered(g, r)
  PROVE  IpcTypeOK' /\ dials' = dials /\ r \in Replies
<1>1. PICK n \in 1..Len(resp) : resp' = SubSeq(resp, n + 1, Len(resp))
  BY DEF Answered
<1>2. /\ Len(resp) \in Nat
      /\ \A i \in 1..Len(resp) : resp[i] \in Replies
      /\ Head(resp) \in Replies
  BY HeadTailProperties, LenProperties DEF IpcTypeOK, Answered
<1>3. resp' \in Seq(Replies)
  <2>1. \A i \in (n + 1)..Len(resp) : resp[i] \in Replies  BY <1>2
  <2>2. QED  BY <1>1, <1>2, <2>1, SubSeqProperties
<1>4. using' \in [Goroutines -> 0..dials]  BY DEF IpcTypeOK, Answered
<1>5. QED  BY <1>2, <1>3, <1>4 DEF IpcTypeOK, Answered

LEMMA FailedTyped ==
  ASSUME IpcTypeOK, NEW g \in Goroutines, Failed(g)
  PROVE  IpcTypeOK' /\ dials' = dials
BY DEF IpcTypeOK, Failed

LEMMA CloseTyped ==
  ASSUME IpcTypeOK, NEW c, Close(c)
  PROVE  IpcTypeOK' /\ dials' = dials
<1>1. hungup' \in BOOLEAN  BY DEF Close, IpcTypeOK
<1>2. QED  BY <1>1 DEF IpcTypeOK, Close

LEMMA DialTyped ==
  ASSUME IpcTypeOK, Dial
  PROVE  IpcTypeOK' /\ dials' = dials + 1 /\ live' = dials'
BY DEF IpcTypeOK, Dial

LEMMA RefusedTyped ==
  ASSUME IpcTypeOK, NEW c, Refused(c)
  PROVE  IpcTypeOK' /\ dials' = dials
BY DEF IpcTypeOK, Refused, ipcVars

\* The sentinel's own steps keep both types (pipe.cpp).
LEMMA ServeTyped ==
  ASSUME IpcTypeOK, ServerTypeOK, Serve
  PROVE  IpcTypeOK' /\ ServerTypeOK' /\ dials' = dials
<1>1. Head(req) \in Commands /\ Tail(req) \in Seq(Commands)
  BY HeadTailProperties DEF IpcTypeOK, Serve
<1>2. ReplyTo(Head(req)) \in Replies /\ LockAfter(Head(req)) \in BOOLEAN
  BY DEF ReplyTo, LockAfter, Replies, ServerTypeOK
<1>3. resp' \in Seq(Replies)  BY <1>2 DEF IpcTypeOK, Serve
<1>4. combo' \in BOOLEAN  BY DEF Serve, ServerTypeOK
<1>5. QED  BY <1>1, <1>2, <1>3, <1>4 DEF IpcTypeOK, ServerTypeOK, Serve

LEMMA SentinelTyped ==
  ASSUME IpcTypeOK, ServerTypeOK, SeesHangup \/ SelfUnlock \/ Crash \/ Launch
  PROVE  IpcTypeOK' /\ ServerTypeOK' /\ dials' = dials
<1>e. << >> \in Seq(Commands) /\ << >> \in Seq(Replies)  OBVIOUS
<1>1. CASE SeesHangup
  <2>h. hungup' \in BOOLEAN  BY <1>1 DEF SeesHangup
  <2>1. IpcTypeOK' /\ dials' = dials
    BY <1>1, <1>e, <2>h DEF IpcTypeOK, SeesHangup
  <2>2. UNCHANGED serverVars  BY <1>1 DEF SeesHangup
  <2>3. ServerTypeOK'  BY <2>2 DEF ServerTypeOK, serverVars
  <2>4. QED  BY <2>1, <2>3
<1>2. CASE SelfUnlock
  BY <1>2 DEF IpcTypeOK, ServerTypeOK, SelfUnlock, ipcVars
<1>3. CASE Crash
  <2>h. hungup' \in BOOLEAN /\ alive' \in BOOLEAN /\ kbd' \in BOOLEAN
          /\ combo' \in BOOLEAN
    BY <1>3 DEF Crash
  <2>1. IpcTypeOK' /\ dials' = dials
    BY <1>3, <1>e, <2>h DEF IpcTypeOK, Crash
  <2>2. ServerTypeOK'  BY <1>3, <2>h DEF ServerTypeOK, Crash
  <2>3. QED  BY <2>1, <2>2
<1>4. CASE Launch
  BY <1>4 DEF IpcTypeOK, ServerTypeOK, Launch, ipcVars
<1>5. QED  BY <1>1, <1>2, <1>3, <1>4

-----------------------------------------------------------------------------
(* The controller's mutex. *)

\* The types of the variables that MutexDiscipline is about.
Places == /\ mu \in Agents \cup {"none"}
          /\ pc \in [Agents -> Steps]
          /\ op \in [Agents -> Ops]

\* A goroutine that takes up a command does not touch c.mu.
LEMMA BeginKeepsDiscipline ==
  ASSUME Places, MutexDiscipline, NEW g \in Agents, NEW o \in Ops \ {"none"},
         o = "SYNC" <=> g = "sync",
         pc[g] \in {"rest", "status"}, Begin(g, o), mu' = mu
  PROVE  Places' /\ MutexDiscipline'
BY DEF Places, MutexDiscipline, Begin, Holding, Steps, Ops

\* A goroutine that returns has released it.
LEMMA DoneKeepsDiscipline ==
  ASSUME Places, MutexDiscipline, NEW g \in Agents, Done(g), mu' = "none",
         mu \in {g, "none"}
  PROVE  Places' /\ MutexDiscipline'
BY CallersAssumption
   DEF Places, MutexDiscipline, Done, Holding, Steps, Ops, Agents, Users

\* A goroutine that goes on inside a command keeps it.
LEMMA HolderKeepsDiscipline ==
  ASSUME Places, MutexDiscipline, NEW g \in Agents, NEW step \in Holding,
         pc[g] \in Holding, step = "reply" => g # "sync", At(g, step), mu' = mu,
         step # "request"
  PROVE  Places' /\ MutexDiscipline'
BY DEF Places, MutexDiscipline, At, Holding, Steps, Ops

\* The poller keeps to itself between two decisions.
LEMMA PollerKeepsDiscipline ==
  ASSUME Places, MutexDiscipline, NEW step \in {"rest", "query", "status"},
         pc["sync"] \in {"rest", "query", "status"}, At("sync", step), mu' = mu
  PROVE  Places' /\ MutexDiscipline'
BY DEF Places, MutexDiscipline, At, Holding, Steps, Ops, Agents

\* A goroutine that enters takes the mutex that was free.
LEMMA EnterKeepsDiscipline ==
  ASSUME Places, MutexDiscipline, NEW g \in Agents, Enter(g)
  PROVE  Places' /\ MutexDiscipline'
BY CallersAssumption
   DEF Places, MutexDiscipline, Enter, At, Holding, Steps, Ops, Agents, Users

\* Every step of the program keeps the mutex discipline (controller.go: every
\* return path runs the deferred Unlock, and nobody else does).
LEMMA MutexStep ==
  ASSUME Places, MutexDiscipline, [Next]_vars
  PROVE  Places' /\ MutexDiscipline'
<1>1. ASSUME UNCHANGED <<mu, pc, op>>
      PROVE  Places' /\ MutexDiscipline'
  BY <1>1 DEF Places, MutexDiscipline
<1>2. CASE Arrive \/ TimerFires
  <2>1. CASE Click /\ UNCHANGED <<ipcVars, serverVars, managerVars>>
    BY <2>1, BeginKeepsDiscipline DEF Click, Agents, Users, Ops
  <2>2. CASE HandleHotkey
    BY <2>2, BeginKeepsDiscipline DEF HandleHotkey, Agents, Users, Ops
  <2>3. CASE TimerFires
    BY <2>3, BeginKeepsDiscipline
       DEF TimerFires, IdleFires, Agents, Users, Ops
  <2>4. ASSUME NEW g \in Callers, NEW o \in {"LOCK", "UNLOCK"}, Command(g, o)
        PROVE  Places' /\ MutexDiscipline'
    BY <2>4, BeginKeepsDiscipline, CallersAssumption
       DEF Command, Agents, Users, Ops
  <2>5. QED  BY <1>2, <2>1, <2>2, <2>3, <2>4 DEF Arrive
<1>3. ASSUME NEW g \in Agents, AgentStep(g)
      PROVE  Places' /\ MutexDiscipline'
  <2>1. CASE NoOp(g)
    BY <2>1, DoneKeepsDiscipline DEF NoOp
  <2>2. CASE Enter(g)
    BY <2>2, EnterKeepsDiscipline
  <2>3. ASSUME pc[g] \in Holding, GiveUp(g)
        PROVE  Places' /\ MutexDiscipline'
    BY <2>3, DoneKeepsDiscipline DEF GiveUp, MutexDiscipline
  <2>4. ASSUME pc[g] \in {"request", "reply"}, At(g, "reply") \/ At(g, "commit"),
               mu' = mu
        PROVE  Places' /\ MutexDiscipline'
    BY <2>4, HolderKeepsDiscipline DEF Holding, MutexDiscipline
  <2>5. CASE Request(g)
    BY <2>3, <2>4, <2>5 DEF Request, Holding
  <2>6. CASE Reply(g)
    BY <2>3, <2>4, <2>6 DEF Reply, Holding
  <2>7. CASE Commit(g) \/ Desire(g)
    BY <2>7, HolderKeepsDiscipline DEF Commit, Desire, Holding
  <2>8. CASE Finish(g)
    BY <2>8, DoneKeepsDiscipline DEF Finish, Holding, MutexDiscipline
  <2>9. QED
    BY <1>3, <2>1, <2>2, <2>5, <2>6, <2>7, <2>8
       DEF AgentStep, GetIn, Ask, Hear, Record, Tell, Release
<1>4. CASE StartPoll \/ AskStatus \/ HearStatus
  <2>1. CASE StartPoll
    BY <2>1, PollerKeepsDiscipline DEF StartPoll, Poll
  <2>2. CASE AskStatus
    BY <2>2, PollerKeepsDiscipline DEF AskStatus, Query
  <2>3. CASE HearStatus
    BY <2>3, PollerKeepsDiscipline, BeginKeepsDiscipline
       DEF HearStatus, Status, Agents, Ops
  <2>4. QED  BY <1>4, <2>1, <2>2, <2>3
<1>5. CASE DogStep
  BY <1>1, <1>5 DEF DogStep, Tick, DogWorks, DogAdopt, SetClient, controllerVars
<1>6. CASE SentinelWorks \/ SentinelFate \/ TrayReady \/ UNCHANGED vars
  BY <1>1, <1>6
     DEF SentinelWorks, SentinelFate, TrayReady, OnReady, controllerVars, vars
<1>7. QED
  BY <1>2, <1>3, <1>4, <1>5, <1>6 DEF Next, SyncStep, Agents

-----------------------------------------------------------------------------
(* Type correctness, continued: every step of the program. *)

\* The pipe and the sentinel.
ChannelTyped == IpcTypeOK /\ ServerTypeOK

LEMMA ChannelUnchanged ==
  ASSUME ChannelTyped, UNCHANGED <<ipcVars, serverVars>>
  PROVE  ChannelTyped' /\ dials' = dials
BY DEF ChannelTyped, IpcTypeOK, ServerTypeOK, ipcVars, serverVars

LEMMA ServerUnchanged ==
  ASSUME ServerTypeOK, UNCHANGED serverVars
  PROVE  ServerTypeOK'
BY DEF ServerTypeOK, serverVars

\* What the watchdog does to the pipe.
LEMMA DogKeepsChannel ==
  ASSUME TypeOK, DogStep
  PROVE  ChannelTyped' /\ dials' \in {dials, dials + 1}
<1>a. ChannelTyped /\ mClient \in 0..dials /\ "dog" \in Goroutines /\ dials \in Nat
  BY DEF TypeOK, ChannelTyped, ManagerTypeOK, IpcTypeOK, Goroutines
<1>1. CASE UNCHANGED <<ipcVars, serverVars>>
  BY <1>a, <1>1, ChannelUnchanged
<1>2. ASSUME NEW cmd \in Commands, NEW s, NEW r, DogSends(cmd, s, r)
      PROVE  ChannelTyped' /\ dials' = dials
  BY <1>2, <1>a, SendTyped, RefusedTyped, ServerUnchanged DEF DogSends, ChannelTyped
<1>3. CASE DogPing \/ DogRelock \/ DogCombo
  BY <1>2, <1>3 DEF DogPing, DogRelock, DogCombo, Commands
<1>4. ASSUME Failed("dog") \/ (\E r : Answered("dog", r)), UNCHANGED serverVars
      PROVE  ChannelTyped' /\ dials' = dials
  BY <1>4, <1>a, FailedTyped, AnsweredTyped, ServerUnchanged DEF ChannelTyped
<1>5. CASE DogPong \/ DogRelocked \/ DogConfirm
  <2>1. UNCHANGED serverVars
    BY <1>5 DEF DogPong, DogRelocked, DogConfirm, DogHears
  <2>2. Failed("dog") \/ \E r : Answered("dog", r)
    BY <1>5 DEF DogPong, DogRelocked, DogConfirm, DogHears
  <2>3. QED  BY <1>4, <2>1, <2>2
<1>6. CASE DogClose
  BY <1>6, <1>a, CloseTyped, ServerUnchanged DEF DogClose, ChannelTyped
<1>7. CASE DogLaunch
  BY <1>7, <1>a, SentinelTyped DEF DogLaunch, ChannelTyped
<1>8. CASE DogDial
  BY <1>8, <1>a, DialTyped, ServerUnchanged DEF DogDial, ChannelTyped
<1>9. CASE Tick \/ DogAdopt \/ DogLaunchFails \/ DogDialFails \/ DogRestore
  BY <1>1, <1>9
     DEF Tick, DogTick, DogAdopt, DogLaunchFails, DogDialFails, DogRestore
<1>10. QED
  BY <1>3, <1>5, <1>6, <1>7, <1>8, <1>9 DEF DogStep, DogWorks

\* What every step does to the pipe.
LEMMA ChannelStep ==
  ASSUME TypeOK, MutexDiscipline, [Next]_vars
  PROVE  ChannelTyped' /\ dials' \in {dials, dials + 1}
<1>a. ChannelTyped /\ dials \in Nat
  BY DEF TypeOK, ChannelTyped, IpcTypeOK
<1>1. CASE UNCHANGED <<ipcVars, serverVars>>
  BY <1>a, <1>1, ChannelUnchanged
<1>2. ASSUME NEW g \in Agents, Failed(g) \/ (\E r : Answered(g, r)),
             UNCHANGED serverVars
      PROVE  ChannelTyped' /\ dials' = dials
  BY <1>2, <1>a, FailedTyped, AnsweredTyped, ServerUnchanged
     DEF ChannelTyped, Goroutines
<1>3. ASSUME NEW g \in Agents, NEW c \in 0..dials, NEW cmd \in Commands,
             Send(g, c, cmd) \/ Refused(c), UNCHANGED serverVars
      PROVE  ChannelTyped' /\ dials' = dials
  BY <1>3, <1>a, SendTyped, RefusedTyped, ServerUnchanged
     DEF ChannelTyped, Goroutines
<1>4. ASSUME NEW g \in Agents, AgentStep(g)
      PROVE  ChannelTyped' /\ dials' \in {dials, dials + 1}
  <2>1. CASE Ask(g)
    <3>1. client \in 0..dials  BY DEF TypeOK, ControllerTypeOK
    <3>2. op[g] \in Commands
      BY <2>1 DEF TypeOK, ControllerTypeOK, MutexDiscipline, Ask, Request, Ops,
                  Commands
    <3>3. QED  BY <1>3, <2>1, <3>1, <3>2 DEF Ask, Request
  <2>2. CASE Hear(g)
    BY <1>2, <2>2 DEF Hear, Reply
  <2>3. CASE GetIn(g) \/ Record(g) \/ Tell(g) \/ Release(g)
    BY <1>1, <2>3 DEF GetIn, Record, Tell, Release
  <2>4. QED  BY <1>4, <2>1, <2>2, <2>3 DEF AgentStep
<1>5. CASE StartPoll \/ AskStatus \/ HearStatus
  <2>1. CASE StartPoll  BY <1>1, <2>1 DEF StartPoll
  <2>2. CASE AskStatus
    <3>1. polled \in 0..dials /\ "sync" \in Agents /\ "STATUS" \in Commands
      BY DEF TypeOK, ControllerTypeOK, Agents, Commands
    <3>2. QED  BY <1>3, <2>2, <3>1 DEF AskStatus, Query
  <2>3. CASE HearStatus
    BY <1>2, <2>3 DEF HearStatus, Status, Agents
  <2>4. QED  BY <1>5, <2>1, <2>2, <2>3
<1>6. CASE DogStep
  BY <1>6, DogKeepsChannel
<1>7. CASE SentinelWorks \/ SentinelFate
  BY <1>a, <1>7, ServeTyped, SentinelTyped
     DEF SentinelWorks, SentinelFate, ChannelTyped
<1>8. CASE Arrive \/ TimerFires \/ TrayReady \/ UNCHANGED vars
  BY <1>1, <1>8 DEF Arrive, TimerFires, TrayReady, vars
<1>9. QED
  BY <1>4, <1>5, <1>6, <1>7, <1>8 DEF Next, SyncStep, Agents

\* The watchdog's variables.
LEMMA ManagerStep ==
  ASSUME TypeOK, DogHasClient, [Next]_vars,
         dials' \in {dials, dials + 1}
  PROVE  ManagerTypeOK' /\ DogHasClient'
<1>a. ManagerTypeOK /\ dials \in Nat
  BY DEF TypeOK, IpcTypeOK
<1>1. CASE UNCHANGED managerVars
  BY <1>a, <1>1 DEF ManagerTypeOK, DogHasClient, managerVars
<1>2. ASSUME NEW s \in DogSteps, GoTo(s), mClient' = mClient,
             s \in {"rest", "start", "dial"} \/ mClient # 0
      PROVE  ManagerTypeOK' /\ DogHasClient'
  BY <1>a, <1>2 DEF ManagerTypeOK, DogHasClient, GoTo
<1>3. CASE Tick
  BY <1>2, <1>3 DEF Tick, DogTick, DogSteps
<1>4. ASSUME NEW c, NEW s \in DogSteps, NEW r \in DogSteps, DogSends(c, s, r),
             mClient # 0
      PROVE  ManagerTypeOK' /\ DogHasClient'
  BY <1>2, <1>4 DEF DogSends
<1>5. CASE DogPing \/ DogRelock \/ DogCombo
  BY <1>4, <1>5 DEF DogPing, DogRelock, DogCombo, DogSteps, DogHasClient
<1>6. CASE DogPong
  BY <1>2, <1>6 DEF DogPong, DogSteps, DogHasClient
<1>7. CASE DogRelocked \/ DogConfirm
  BY <1>2, <1>7 DEF DogRelocked, DogConfirm, DogHears, DogSteps, DogHasClient
<1>8. CASE DogClose
  BY <1>a, <1>8 DEF DogClose, GoTo, ManagerTypeOK, DogSteps, DogHasClient
<1>9. CASE DogLaunch
  BY <1>2, <1>9 DEF DogLaunch, DogSteps
<1>10. CASE DogLaunchFails \/ DogDialFails
  BY <1>a, <1>10
     DEF DogLaunchFails, DogDialFails, ManagerTypeOK, DogHasClient, DogSteps,
         ipcVars
<1>11. CASE DogDial
  BY <1>a, <1>11, DialTyped
     DEF DogDial, Dial, GoTo, ManagerTypeOK, DogHasClient, DogSteps
<1>12. CASE DogRestore
  BY <1>2, <1>12 DEF DogRestore, DogSteps, DogHasClient
<1>13. CASE DogAdopt
  BY <1>2, <1>13 DEF DogAdopt, DogSteps, DogHasClient
<1>14. ASSUME NEW g \in Agents, AgentStep(g)
       PROVE  ManagerTypeOK' /\ DogHasClient'
  <2>1. CASE Tell(g)
    <3>1. /\ UNCHANGED <<dog, mClient, failures>>
          /\ desired' = Wants(g)
      BY <2>1 DEF Tell, Desire, SetDesiredLock
    <3>2. desired' \in BOOLEAN  BY <3>1 DEF Wants
    <3>3. QED  BY <1>a, <3>1, <3>2 DEF ManagerTypeOK, DogHasClient
  <2>2. CASE GetIn(g) \/ Ask(g) \/ Hear(g) \/ Record(g) \/ Release(g)
    BY <1>1, <2>2 DEF GetIn, Ask, Hear, Record, Release
  <2>3. QED  BY <1>14, <2>1, <2>2 DEF AgentStep
<1>15. CASE \/ Arrive \/ TimerFires \/ StartPoll \/ AskStatus \/ HearStatus
            \/ SentinelWorks \/ SentinelFate \/ TrayReady \/ UNCHANGED vars
  BY <1>1, <1>15
     DEF Arrive, TimerFires, StartPoll, AskStatus, HearStatus, SentinelWorks,
         SentinelFate, TrayReady, vars
<1>16. QED
  BY <1>3, <1>5, <1>6, <1>7, <1>8, <1>9, <1>10, <1>11, <1>12, <1>13, <1>14, <1>15
     DEF Next, SyncStep, DogStep, DogWorks, Agents

\* The controller's variables besides mu, pc and op.
DataTyped == /\ locked \in BOOLEAN
             /\ client \in 1..dials /\ polled \in 1..dials
             /\ timer \in {"off", "armed", "fired"}
             /\ shown \in BOOLEAN /\ ready \in BOOLEAN /\ missed \in BOOLEAN

LEMMA DataStep ==
  ASSUME TypeOK, DogHasClient, [Next]_vars, dials' \in {dials, dials + 1}
  PROVE  DataTyped'
<1>a. DataTyped /\ dials \in Nat /\ mClient \in 0..dials
  BY DEF TypeOK, ControllerTypeOK, ManagerTypeOK, IpcTypeOK, DataTyped
<1>1. ASSUME UNCHANGED <<locked, client, polled, timer, trayVars>>
      PROVE  DataTyped'
  BY <1>a, <1>1 DEF DataTyped, trayVars
<1>2. CASE Arrive
  BY <1>1, <1>2 DEF Arrive, Click, HandleHotkey, Command
<1>3. CASE TimerFires
  BY <1>a, <1>3 DEF TimerFires, IdleFires, DataTyped, trayVars
<1>4. ASSUME NEW g \in Agents, AgentStep(g)
      PROVE  DataTyped'
  <2>1. CASE NoOp(g) \/ Enter(g) \/ Request(g) \/ Reply(g) \/ Desire(g)
    BY <1>1, <2>1 DEF NoOp, Enter, Request, Reply, Desire, GiveUp
  <2>2. CASE Commit(g)
    <3>1. locked' \in BOOLEAN  BY <2>2 DEF Commit, Wants
    <3>2. QED  BY <1>a, <2>2, <3>1 DEF Commit, DataTyped, trayVars
  <2>3. CASE Finish(g)
    <3>1. shown' \in BOOLEAN /\ missed' \in BOOLEAN
      BY <1>a, <2>3 DEF Finish, DataTyped
    <3>2. timer' \in {"off", "armed", "fired"}  BY <2>3 DEF Finish
    <3>3. UNCHANGED <<locked, client, polled, ready>>  BY <2>3 DEF Finish
    <3>4. QED  BY <1>a, <3>1, <3>2, <3>3 DEF DataTyped
  <2>4. QED
    BY <1>4, <2>1, <2>2, <2>3
       DEF AgentStep, GetIn, Ask, Hear, Record, Tell, Release
<1>5. CASE StartPoll
  BY <1>a, <1>5 DEF StartPoll, Poll, DataTyped, trayVars
<1>6. CASE AskStatus \/ HearStatus
  BY <1>1, <1>6 DEF AskStatus, HearStatus, Query, Status
<1>7. CASE DogAdopt
  BY <1>a, <1>7 DEF DogAdopt, SetClient, DataTyped, DogHasClient, trayVars
<1>8. CASE TrayReady
  <2>1. ready' \in BOOLEAN  BY <1>8 DEF TrayReady, OnReady
  <2>2. QED  BY <1>a, <1>8, <2>1 DEF TrayReady, OnReady, DataTyped
<1>9. CASE Tick \/ DogWorks \/ SentinelWorks \/ SentinelFate \/ UNCHANGED vars
  BY <1>1, <1>9
     DEF Tick, DogWorks, SentinelWorks, SentinelFate, vars, controllerVars
<1>10. QED
  BY <1>2, <1>3, <1>4, <1>5, <1>6, <1>7, <1>8, <1>9
     DEF Next, SyncStep, DogStep, Agents

-----------------------------------------------------------------------------
(* The first inductive invariant. *)

Typed == TypeOK /\ MutexDiscipline /\ DogHasClient

LEMMA TypedInit ==
  ASSUME Init
  PROVE  Typed
<1>1. IpcTypeOK
  <2>1. << >> \in Seq(Commands) /\ << >> \in Seq(Replies)  OBVIOUS
  <2>2. hungup \in BOOLEAN  BY DEF Init, IpcInit
  <2>3. req \in Seq(Commands)
    <3>1. <<"SET_COMBO">> \in Seq(Commands)  BY DEF Commands
    <3>2. QED  BY <2>1, <3>1 DEF Init, IpcInit
  <2>4. timeouts \in 0..MaxTimeouts
    BY TimeoutsAssumption DEF Init, IpcInit
  <2>5. QED
    BY <2>1, <2>2, <2>3, <2>4 DEF Init, IpcInit, IpcTypeOK
<1>2. ServerTypeOK
  <2>1. alive \in BOOLEAN /\ combo \in BOOLEAN /\ kbd \in BOOLEAN
    BY OrphanAssumption DEF Init, IpcInit
  <2>2. QED  BY <2>1, CrashesAssumption DEF Init, ServerTypeOK
<1>3. ManagerTypeOK /\ DogHasClient
  <2>1. desired \in BOOLEAN  BY DEF Init, ManagerInit
  <2>2. QED
    BY <2>1, FailuresAssumption
       DEF Init, ManagerInit, IpcInit, ManagerTypeOK, DogSteps, DogHasClient
<1>4. Places /\ MutexDiscipline
  BY CallersAssumption
     DEF Init, ControllerInit, Places, MutexDiscipline, Holding, Steps, Ops,
         Agents, Users
<1>5. DataTyped
  <2>1. /\ locked \in BOOLEAN /\ shown \in BOOLEAN
        /\ ready \in BOOLEAN /\ missed \in BOOLEAN
    BY TrayUpAssumption DEF Init, ControllerInit
  <2>2. QED  BY <2>1 DEF Init, ControllerInit, IpcInit, DataTyped
<1>6. QED
  BY <1>1, <1>2, <1>3, <1>4, <1>5
     DEF Typed, TypeOK, ControllerTypeOK, Places, DataTyped

LEMMA TypedStep ==
  ASSUME Typed, [Next]_vars
  PROVE  Typed'
<1>1. Places  BY DEF Typed, TypeOK, ControllerTypeOK, Places
<1>2. Places' /\ MutexDiscipline'  BY <1>1, MutexStep DEF Typed
<1>3. ChannelTyped' /\ dials' \in {dials, dials + 1}  BY ChannelStep DEF Typed
<1>4. ManagerTypeOK' /\ DogHasClient'  BY <1>3, ManagerStep DEF Typed
<1>5. DataTyped'  BY <1>3, DataStep DEF Typed
<1>6. QED
  BY <1>2, <1>3, <1>4, <1>5
     DEF Typed, TypeOK, ControllerTypeOK, Places, DataTyped, ChannelTyped

\* Every variable keeps its type, the mutex c.mu is used as Go intends, and the
\* watchdog never uses a client it does not have.
THEOREM TypeCorrect == Spec => []TypeOK
<1>1. Init => Typed  BY TypedInit
<1>2. Typed /\ [Next]_vars => Typed'  BY TypedStep
<1>3. Typed => TypeOK  BY DEF Typed
<1>4. QED  BY <1>1, <1>2, <1>3, PTL DEF Spec

THEOREM AlwaysTyped == Spec => []Typed
<1>1. Init => Typed  BY TypedInit
<1>2. Typed /\ [Next]_vars => Typed'  BY TypedStep
<1>3. QED  BY <1>1, <1>2, PTL DEF Spec

-----------------------------------------------------------------------------
(* The two records of the lock state, the idle timer and the tray. *)

LEMMA RecordedInit ==
  ASSUME Init
  PROVE  StateRecorded
BY DEF Init, ControllerInit, ManagerInit, StateRecorded

\* A step that leaves the recorded state alone, and takes no goroutine into or
\* out of the steps that record it, keeps StateRecorded.
LEMMA RecordedUnchanged ==
  ASSUME StateRecorded, Places,
         UNCHANGED <<locked, desired, timer, trayVars>>,
         \A g \in Agents : pc'[g] \in {"desire", "finish"} <=> pc[g] \in {"desire", "finish"},
         \A g \in Agents : pc[g] \in {"desire", "finish"} =>
           pc'[g] = pc[g] /\ op'[g] = op[g]
  PROVE  StateRecorded'
BY DEF StateRecorded, Wants, Places, trayVars

LEMMA RecordedStep ==
  ASSUME Typed, StateRecorded, [Next]_vars
  PROVE  StateRecorded'
<1>a. Places /\ MutexDiscipline /\ DataTyped
  BY DEF Typed, TypeOK, ControllerTypeOK, Places, DataTyped
<1>1. ASSUME UNCHANGED <<pc, op, locked, desired, timer, trayVars>>
      PROVE  StateRecorded'
  BY <1>a, <1>1, RecordedUnchanged
<1>2. ASSUME NEW g \in Agents, NEW o, pc[g] \in {"rest", "status"}, Begin(g, o),
             UNCHANGED <<locked, desired, timer, trayVars>>
      PROVE  StateRecorded'
  BY <1>a, <1>2, RecordedUnchanged DEF Begin, Places
<1>3. ASSUME NEW g \in Agents, NEW s, At(g, s) \/ Done(g),
             s \notin {"desire", "finish"}, pc[g] \notin {"desire", "finish"},
             UNCHANGED <<locked, desired, timer, trayVars>>
      PROVE  StateRecorded'
  BY <1>a, <1>3, RecordedUnchanged DEF At, Done, Places
<1>4. CASE Arrive
  BY <1>2, <1>4
     DEF Arrive, Click, HandleHotkey, Command, managerVars, Agents, Users
<1>5. CASE TimerFires
  <2>1. /\ Begin("idler", "UNLOCK") /\ pc["idler"] = "rest" /\ "idler" \in Agents
        /\ timer = "armed" /\ timer' = "fired"
        /\ UNCHANGED <<locked, desired, shown, ready, missed>>
    BY <1>5 DEF TimerFires, IdleFires, managerVars, trayVars, Agents, Users
  <2>2. \A g \in Agents : pc'[g] \in {"desire", "finish"} => pc'[g] = pc[g] /\ op'[g] = op[g]
    BY <1>a, <2>1 DEF Begin, Places
  <2>3. \A g \in Agents : pc[g] \in {"desire", "finish"} => pc'[g] = pc[g]
    BY <1>a, <2>1 DEF Begin, Places
  <2>4. QED  BY <1>a, <2>1, <2>2, <2>3 DEF StateRecorded, Wants, Places
<1>6. ASSUME NEW g \in Agents, AgentStep(g)
      PROVE  StateRecorded'
  <2>1. CASE GetIn(g)
    BY <1>3, <2>1 DEF GetIn, NoOp, Enter, managerVars
  <2>2. CASE Ask(g) \/ Hear(g)
    BY <1>3, <2>2 DEF Ask, Hear, Request, Reply, GiveUp, managerVars
  <2>3. ASSUME pc[g] \in Holding
        PROVE  \A h \in Agents : h # g => pc[h] \notin Holding
    BY <1>a, <2>3 DEF MutexDiscipline
  <2>4. CASE Record(g)
    BY <1>a, <2>3, <2>4
       DEF Record, Commit, At, StateRecorded, Wants, Places, Holding, managerVars,
           trayVars
  <2>5. CASE Tell(g)
    BY <1>a, <2>3, <2>5
       DEF Tell, Desire, SetDesiredLock, At, StateRecorded, Wants, Places, Holding,
           trayVars
  <2>6. CASE Release(g)
    <3>1. /\ pc[g] = "finish" /\ Done(g) /\ UNCHANGED <<locked, desired, ready>>
          /\ shown' = (IF ready THEN locked ELSE shown) /\ missed' = ~ready
          /\ timer' = (IF locked THEN "armed" ELSE "off")
      BY <2>6 DEF Release, Finish, managerVars
    <3>2. desired = locked
      BY <2>3, <3>1 DEF StateRecorded, Holding
    <3>3. \A h \in Agents : pc'[h] \notin {"desire", "finish"}
      BY <1>a, <2>3, <3>1 DEF Done, Places, Holding
    <3>4. locked' <=> timer' # "off"  BY <3>1
    <3>5. /\ (shown' <=> locked') \/ (missed' /\ locked')
          /\ shown' => ready'
      BY <3>1 DEF StateRecorded
    <3>6. QED  BY <3>1, <3>2, <3>3, <3>4, <3>5 DEF StateRecorded
  <2>7. QED  BY <1>6, <2>1, <2>2, <2>4, <2>5, <2>6 DEF AgentStep
<1>7. CASE StartPoll \/ AskStatus \/ HearStatus
  BY <1>2, <1>3, <1>7
     DEF StartPoll, AskStatus, HearStatus, Poll, Query, Status, managerVars, Agents
<1>8. CASE DogStep
  BY <1>1, <1>8
     DEF DogStep, Tick, DogTick, DogWorks, DogAdopt, SetClient, GoTo, DogPing,
         DogPong, DogClose, DogLaunch, DogLaunchFails, DogDial, DogDialFails,
         DogRestore, DogRelock, DogRelocked, DogCombo, DogConfirm, DogSends,
         DogHears, controllerVars
<1>9. CASE TrayReady
  <2>1. UNCHANGED <<pc, op, locked, desired, timer, shown, missed>> /\ ready'
    BY <1>9 DEF TrayReady, OnReady, managerVars
  <2>2. QED  BY <2>1 DEF StateRecorded, Wants
<1>10. CASE SentinelWorks \/ SentinelFate \/ UNCHANGED vars
  BY <1>1, <1>10
     DEF SentinelWorks, SentinelFate, vars, managerVars, controllerVars
<1>11. QED
  BY <1>4, <1>5, <1>6, <1>7, <1>8, <1>9, <1>10 DEF Next, SyncStep, Agents

LEMMA RecordedAgrees ==
  ASSUME Typed, StateRecorded
  PROVE  StateAgrees /\ TrayShowsLock
<1>1. ASSUME mu = "none"
      PROVE  \A g \in Agents : pc[g] \notin {"desire", "finish"}
  BY <1>1, CallersAssumption DEF Typed, MutexDiscipline, Holding, Agents, Users
<1>2. QED  BY <1>1 DEF StateAgrees, TrayShowsLock, StateRecorded

\* Whenever c.mu is free, c.locked, m.locked and the idle timer agree: there is no
\* path through LockCommand, UnlockCommand and syncUnlock, and no interleaving with
\* the watchdog, the hotkey or the timer's callback, that leaves one behind.
THEOREM StateAlwaysAgrees == Spec => []StateAgrees
<1>1. Init => Typed /\ StateRecorded  BY TypedInit, RecordedInit
<1>2. Typed /\ StateRecorded /\ [Next]_vars => Typed' /\ StateRecorded'
  BY TypedStep, RecordedStep
<1>3. Typed /\ StateRecorded => StateAgrees  BY RecordedAgrees
<1>4. QED  BY <1>1, <1>2, <1>3, PTL DEF Spec

\* The tray menu offers the command that applies whenever c.mu is free, except that
\* it goes on offering Lock for a keyboard that was locked before onReady had built
\* the menu, for SetState found none; the next command or syncUnlock mends that.
THEOREM TrayAlwaysShowsLock == Spec => []TrayShowsLock
<1>1. Init => Typed /\ StateRecorded  BY TypedInit, RecordedInit
<1>2. Typed /\ StateRecorded /\ [Next]_vars => Typed' /\ StateRecorded'
  BY TypedStep, RecordedStep
<1>3. Typed /\ StateRecorded => TrayShowsLock  BY RecordedAgrees
<1>4. QED  BY <1>1, <1>2, <1>3, PTL DEF Spec

-----------------------------------------------------------------------------
(* The controller's client. *)

LEMMA ClientStep ==
  ASSUME Typed, ClientIsCurrent, [Next]_vars
  PROVE  ClientIsCurrent'
<1>1. ASSUME UNCHANGED <<dog, mClient, client>>
      PROVE  ClientIsCurrent'
  BY <1>1 DEF ClientIsCurrent
<1>2. ASSUME NEW g \in Agents, AgentStep(g)
      PROVE  ClientIsCurrent'
  BY <1>1, <1>2
     DEF AgentStep, GetIn, NoOp, Enter, Ask, Request, GiveUp, Hear, Reply, Record,
         Commit, Tell, Desire, SetDesiredLock, Release, Finish, managerVars
<1>3. CASE Arrive \/ TimerFires \/ StartPoll \/ AskStatus \/ HearStatus \/ TrayReady
  BY <1>1, <1>3
     DEF Arrive, Click, HandleHotkey, Command, TimerFires, IdleFires, StartPoll,
         Poll, AskStatus, Query, HearStatus, Status, TrayReady, OnReady, managerVars
<1>4. CASE SentinelWorks \/ SentinelFate \/ UNCHANGED vars
  BY <1>1, <1>4
     DEF SentinelWorks, SentinelFate, vars, managerVars, controllerVars
<1>5. CASE Tick
  BY <1>5 DEF Tick, DogTick, GoTo, ClientIsCurrent, controllerVars
<1>6. CASE DogAdopt
  BY <1>6 DEF DogAdopt, SetClient, ClientIsCurrent
<1>7. CASE DogWorks
  <2>1. client' = client  BY <1>7 DEF DogWorks, controllerVars
  <2>2. CASE DogPing \/ DogPong \/ DogCombo \/ DogConfirm
    BY <2>1, <2>2
       DEF DogPing, DogPong, DogCombo, DogConfirm, DogSends, DogHears, GoTo,
           ClientIsCurrent
  <2>3. CASE DogClose \/ DogLaunch \/ DogLaunchFails \/ DogDialFails
    BY <2>1, <2>3
       DEF DogClose, DogLaunch, DogLaunchFails, DogDialFails, GoTo, ClientIsCurrent
  <2>4. CASE DogDial \/ DogRestore \/ DogRelock \/ DogRelocked
    BY <2>1, <2>4
       DEF DogDial, DogRestore, DogRelock, DogRelocked, DogSends, DogHears, GoTo,
           ClientIsCurrent
  <2>5. QED  BY <1>7, <2>2, <2>3, <2>4 DEF DogWorks
<1>8. QED
  BY <1>2, <1>3, <1>4, <1>5, <1>6, <1>7 DEF Next, SyncStep, DogStep, Agents

\* Outside of a restart the controller uses the client that the watchdog pings, so
\* a lost sentinel is noticed on the very connection the commands depend on.
THEOREM ClientAlwaysCurrent == Spec => []ClientIsCurrent
<1>1. Init => Typed /\ ClientIsCurrent
  BY TypedInit DEF Init, ManagerInit, ControllerInit, ClientIsCurrent
<1>2. Typed /\ ClientIsCurrent /\ [Next]_vars => Typed' /\ ClientIsCurrent'
  BY TypedStep, ClientStep
<1>3. QED  BY <1>1, <1>2, PTL DEF Spec

-----------------------------------------------------------------------------
(* The pipe: requests and answers. *)

Channel == PipeDiscipline /\ AnswersOwed /\ RepliesMatchRequests

\* A goroutine's question changes only with its own steps.
LEMMA AskedStable ==
  ASSUME NEW h \in Goroutines, h \in Agents => op'[h] = op[h],
         h = "dog" => dog' = dog
  PROVE  Asked(h)' = Asked(h)
<1>1. CASE h \in Users  BY <1>1 DEF Asked, Agents
<1>2. CASE h = "sync"  BY <1>2, CallersAssumption DEF Asked, Users
<1>3. CASE h = "dog"  BY <1>3, CallersAssumption DEF Asked, Users
<1>4. QED  BY <1>1, <1>2, <1>3 DEF Goroutines, Agents

\* At most one goroutine waits on the connection that is served.
LEMMA WaitingUnique ==
  ASSUME PipeDiscipline, NEW g \in Waiting
  PROVE  Waiting = {g}
BY DEF PipeDiscipline, Waiting

LEMMA WaitingFree ==
  ASSUME Free(live)
  PROVE  Waiting = {}
BY DEF Free, Waiting

LEMMA ChannelKept ==
  ASSUME Channel, UNCHANGED ipcVars, \A h \in Waiting : Asked(h)' = Asked(h)
  PROVE  Channel'
<1>1. UNCHANGED <<live, hungup, req, resp, using, timeouts>>  BY DEF ipcVars
<1>2. Waiting' = Waiting  BY <1>1 DEF Waiting
<1>3. PipeDiscipline'  BY <1>1, <1>2 DEF Channel, PipeDiscipline
<1>4. AnswersOwed'  BY <1>1, <1>2 DEF Channel, AnswersOwed
<1>5. RepliesMatchRequests'
  BY <1>1, <1>2 DEF Channel, RepliesMatchRequests, Fits
<1>6. QED  BY <1>3, <1>4, <1>5 DEF Channel

LEMMA ChannelSend ==
  ASSUME IpcTypeOK, Channel, NEW g \in Goroutines, NEW c \in 1..dials,
         NEW cmd \in Commands, Send(g, c, cmd), using[g] = 0, Asked(g)' = cmd
  PROVE  Channel'
<1>1. /\ c = live /\ ~hungup /\ live # 0
      /\ req' = Append(req, cmd) /\ using' = [using EXCEPT ![g] = c]
      /\ UNCHANGED <<live, hungup, resp, timeouts>>
  BY DEF Send, Connected
<1>2. Waiting = {}  BY <1>1, WaitingFree DEF Send
<1>3. Waiting' = {g}  BY <1>1, <1>2 DEF Waiting, IpcTypeOK
<1>4. PipeDiscipline'
  <2>1. \A h \in Goroutines : using[h] # c  BY DEF Send, Free
  <2>2. \A h, k \in Goroutines : using'[h] # 0 /\ using'[h] = using'[k] => h = k
    BY <1>1, <2>1 DEF Channel, PipeDiscipline, IpcTypeOK
  <2>3. ~hungup' /\ live' # 0 /\ Waiting' # {}  BY <1>1, <1>3
  <2>4. QED  BY <2>2, <2>3 DEF PipeDiscipline
<1>5. AnswersOwed'
  <2>1. Len(req') = Len(req) + 1 /\ Len(req) \in Nat /\ Len(resp) \in Nat
    BY <1>1 DEF IpcTypeOK
  <2>2. QED  BY <1>1, <1>2, <1>3, <2>1 DEF Channel, AnswersOwed, IpcTypeOK
<1>6. RepliesMatchRequests'
  <2>1. ASSUME timeouts' = 0
        PROVE  req' = <<cmd>> /\ resp' = << >>
    <3>1. req = << >> /\ resp = << >>
      BY <1>1, <1>2, <2>1 DEF Channel, PipeDiscipline
    <3>2. QED  BY <1>1, <3>1
  <2>2. QED  BY <1>3, <2>1 DEF RepliesMatchRequests
<1>7. QED  BY <1>4, <1>5, <1>6 DEF Channel

LEMMA ChannelAnswered ==
  ASSUME IpcTypeOK, Channel, NEW g \in Goroutines, NEW r, Answered(g, r)
  PROVE  Channel'
<1>1. /\ using[g] # 0 /\ using[g] = live
      /\ using' = [using EXCEPT ![g] = 0]
      /\ UNCHANGED <<live, hungup, req, timeouts>>
  BY DEF Answered
<1>2. PICK n \in 1..Len(resp) : resp' = SubSeq(resp, n + 1, Len(resp))
  BY DEF Answered
<1>3. g \in Waiting  BY <1>1 DEF Waiting
<1>4. Waiting = {g}  BY <1>3, WaitingUnique DEF Channel
<1>5. Waiting' = {}  BY <1>1, <1>4 DEF Waiting, IpcTypeOK
<1>6. Len(resp) \in Nat /\ Len(req) \in Nat /\ Len(resp') = Len(resp) - n
  <2>1. Len(resp) \in Nat /\ Len(req) \in Nat  BY DEF IpcTypeOK
  <2>2. \A i \in (n + 1)..Len(resp) : resp[i] \in Replies
    BY <2>1, LenProperties DEF IpcTypeOK
  <2>3. Len(resp') = IF n + 1 <= Len(resp) THEN Len(resp) - (n + 1) + 1 ELSE 0
    BY <1>2, <2>1, <2>2, SubSeqProperties
  <2>4. QED  BY <2>1, <2>3
<1>7. ASSUME timeouts = 0
      PROVE  req' = << >> /\ resp' = << >>
  <2>1. resp # << >>  BY DEF Answered
  <2>2. req = << >> /\ \E a \in Fits(Asked(g)) : resp = <<a>>
    BY <1>3, <1>7, <2>1 DEF Channel, RepliesMatchRequests
  <2>3. Len(resp) = 1  BY <2>2
  <2>4. Len(resp') = 0  BY <1>6, <2>3
  <2>5. resp' = << >>  BY <1>2, <1>6, <2>3, <2>4, SubSeqEmpty
  <2>6. QED  BY <1>1, <2>2, <2>5
<1>8. PipeDiscipline'
  <2>1. \A h, k \in Goroutines : using'[h] # 0 /\ using'[h] = using'[k] => h = k
    BY <1>1 DEF Channel, PipeDiscipline, IpcTypeOK
  <2>2. ~hungup' /\ live' # 0  BY <1>1, <1>4 DEF Channel, PipeDiscipline
  <2>3. QED  BY <1>1, <1>7, <2>1, <2>2 DEF PipeDiscipline
<1>9. AnswersOwed'
  BY <1>1, <1>4, <1>5, <1>6 DEF Channel, AnswersOwed, IpcTypeOK
<1>10. RepliesMatchRequests'  BY <1>5 DEF RepliesMatchRequests
<1>11. QED  BY <1>8, <1>9, <1>10 DEF Channel

LEMMA ChannelFailed ==
  ASSUME IpcTypeOK, Channel, NEW g \in Goroutines, Failed(g),
         \A h \in Waiting \ {g} : Asked(h)' = Asked(h)
  PROVE  Channel'
<1>1. /\ using[g] # 0
      /\ using' = [using EXCEPT ![g] = 0]
      /\ timeouts' \in {timeouts, timeouts + 1}
      /\ using[g] = live => timeouts' = timeouts + 1
      /\ UNCHANGED <<live, hungup, req, resp>>
  BY DEF Failed
<1>2. /\ timeouts \in Nat
      /\ Len(req) \in Nat /\ Len(resp) \in Nat
  BY TimeoutsAssumption DEF IpcTypeOK
<1>3. Waiting' = Waiting \ {g}  BY <1>1 DEF Waiting, IpcTypeOK
<1>4. g \in Waiting => Waiting = {g}  BY WaitingUnique DEF Channel
<1>5. g \in Waiting <=> using[g] = live  BY <1>1 DEF Waiting
<1>6. PipeDiscipline'
  <2>1. \A h, k \in Goroutines : using'[h] # 0 /\ using'[h] = using'[k] => h = k
    BY <1>1 DEF Channel, PipeDiscipline, IpcTypeOK
  <2>2. hungup' => live' # 0 /\ Waiting' = {}
    BY <1>1, <1>3 DEF Channel, PipeDiscipline
  <2>3. live' = 0 => req' = << >> /\ resp' = << >>
    BY <1>1 DEF Channel, PipeDiscipline
  <2>4. timeouts' = 0 /\ Waiting' = {} => req' = << >> /\ resp' = << >>
    <3>1. SUFFICES ASSUME timeouts' = 0, Waiting' = {}
                   PROVE  req' = << >> /\ resp' = << >>
      OBVIOUS
    <3>2. timeouts = 0 /\ g \notin Waiting  BY <1>1, <1>2, <1>5, <3>1
    <3>3. Waiting = {}  BY <1>3, <3>1, <3>2
    <3>4. QED  BY <1>1, <3>2, <3>3 DEF Channel, PipeDiscipline
  <2>5. QED  BY <2>1, <2>2, <2>3, <2>4 DEF PipeDiscipline
<1>7. AnswersOwed'
  <2>1. CASE g \in Waiting
    <3>1. Waiting = {g} /\ Waiting' = {} /\ timeouts' = timeouts + 1
      BY <1>1, <1>3, <1>4, <1>5, <2>1
    <3>2. QED  BY <1>1, <1>2, <3>1 DEF Channel, AnswersOwed
  <2>2. CASE g \notin Waiting
    <3>1. Waiting' = Waiting  BY <1>3, <2>2
    <3>2. QED  BY <1>1, <1>2, <3>1 DEF Channel, AnswersOwed
  <2>3. QED  BY <2>1, <2>2
<1>8. RepliesMatchRequests'
  <2>1. SUFFICES ASSUME timeouts' = 0, NEW h \in Waiting'
                 PROVE  \/ req' = <<Asked(h)'>> /\ resp' = << >>
                        \/ req' = << >> /\ \E a \in Fits(Asked(h)') : resp' = <<a>>
    BY DEF RepliesMatchRequests, Fits
  <2>2. timeouts = 0 /\ h \in Waiting /\ h # g  BY <1>1, <1>2, <1>3, <2>1
  <2>3. Asked(h)' = Asked(h)  BY <2>2
  <2>4. QED  BY <1>1, <2>2, <2>3 DEF Channel, RepliesMatchRequests
<1>9. QED  BY <1>6, <1>7, <1>8 DEF Channel

LEMMA ChannelClose ==
  ASSUME IpcTypeOK, Channel, NEW c \in 1..dials, Close(c),
         \A h \in Waiting : Asked(h)' = Asked(h)
  PROVE  Channel'
<1>1. /\ UNCHANGED <<live, req, resp, using, timeouts>>
      /\ hungup' = (hungup \/ c = live)
  BY DEF Close
<1>2. Waiting' = Waiting  BY <1>1 DEF Waiting
<1>3. c = live => Waiting = {}  BY WaitingFree DEF Close
<1>4. PipeDiscipline'
  <2>1. hungup' => hungup \/ c = live  BY <1>1
  <2>2. c = live => live # 0  BY DEF IpcTypeOK
  <2>3. hungup => live # 0 /\ Waiting = {}  BY DEF Channel, PipeDiscipline
  <2>4. hungup' => live' # 0 /\ Waiting' = {}
    BY <1>1, <1>2, <1>3, <2>1, <2>2, <2>3
  <2>5. QED  BY <1>1, <1>2, <2>4 DEF Channel, PipeDiscipline
<1>5. AnswersOwed'  BY <1>1, <1>2 DEF Channel, AnswersOwed
<1>6. RepliesMatchRequests'
  BY <1>1, <1>2 DEF Channel, RepliesMatchRequests, Fits
<1>7. QED  BY <1>4, <1>5, <1>6 DEF Channel

LEMMA ChannelDial ==
  ASSUME IpcTypeOK, Channel, Dial
  PROVE  Channel'
<1>1. /\ live = 0 /\ live' = dials + 1
      /\ UNCHANGED <<hungup, req, resp, using, timeouts>>
  BY DEF Dial
<1>2. Waiting = {} /\ Waiting' = {}
  BY <1>1 DEF Waiting, IpcTypeOK
<1>3. PipeDiscipline'
  BY <1>1, <1>2 DEF Channel, PipeDiscipline
<1>4. AnswersOwed'  BY <1>1, <1>2 DEF Channel, AnswersOwed
<1>5. RepliesMatchRequests'  BY <1>2 DEF RepliesMatchRequests
<1>6. QED  BY <1>3, <1>4, <1>5 DEF Channel

\* The end of a connection, seen by the sentinel or brought about by its death.
LEMMA ChannelEnds ==
  ASSUME IpcTypeOK, Channel, live' = 0, hungup' = FALSE, req' = << >>,
         resp' = << >>, UNCHANGED <<using, timeouts>>
  PROVE  Channel'
<1>1. Waiting' = {}  BY DEF Waiting
<1>2. PipeDiscipline'  BY <1>1 DEF Channel, PipeDiscipline
<1>3. AnswersOwed'
  <2>1. Len(req') = 0 /\ Len(resp') = 0  OBVIOUS
  <2>2. timeouts' \in Nat  BY TimeoutsAssumption DEF IpcTypeOK
  <2>3. QED  BY <1>1, <2>1, <2>2 DEF AnswersOwed
<1>4. RepliesMatchRequests'  BY <1>1 DEF RepliesMatchRequests
<1>5. QED  BY <1>2, <1>3, <1>4 DEF Channel

LEMMA ChannelServe ==
  ASSUME IpcTypeOK, Channel, Serve, \A h \in Waiting : Asked(h)' = Asked(h)
  PROVE  Channel'
<1>1. /\ live # 0 /\ req # << >> /\ req' = Tail(req)
      /\ resp' = IF hungup THEN resp ELSE Append(resp, ReplyTo(Head(req)))
      /\ UNCHANGED <<live, hungup, using, timeouts>>
  BY DEF Serve
<1>2. Waiting' = Waiting  BY <1>1 DEF Waiting
<1>3. /\ Len(req) \in Nat /\ Len(resp) \in Nat /\ Len(req') = Len(req) - 1
      /\ Len(resp') = IF hungup THEN Len(resp) ELSE Len(resp) + 1
  BY <1>1, HeadTailProperties DEF IpcTypeOK
<1>4. timeouts = 0 => Waiting # {}
  BY <1>1 DEF Channel, PipeDiscipline
<1>5. PipeDiscipline'
  BY <1>1, <1>2, <1>4 DEF Channel, PipeDiscipline
<1>6. AnswersOwed'
  <2>1. hungup => Waiting = {}  BY DEF Channel, PipeDiscipline
  <2>2. timeouts \in Nat  BY TimeoutsAssumption DEF IpcTypeOK
  <2>3. Len(req) >= 1
    BY <1>1, <1>3, EmptySeq DEF IpcTypeOK
  <2>4. QED  BY <1>1, <1>2, <1>3, <2>1, <2>2, <2>3 DEF Channel, AnswersOwed
<1>7. RepliesMatchRequests'
  <2>1. SUFFICES ASSUME timeouts' = 0, NEW h \in Waiting'
                 PROVE  req' = << >> /\ \E a \in Fits(Asked(h)') : resp' = <<a>>
    BY DEF RepliesMatchRequests, Fits
  <2>2. timeouts = 0 /\ h \in Waiting /\ Asked(h)' = Asked(h)
    BY <1>1, <1>2, <2>1
  <2>3. req = <<Asked(h)>> /\ resp = << >>
    BY <1>1, <2>2 DEF Channel, RepliesMatchRequests
  <2>4. ~hungup  BY <2>2 DEF Channel, PipeDiscipline
  <2>5. req' = << >> /\ resp' = <<ReplyTo(Asked(h))>>
    BY <1>1, <2>3, <2>4
  <2>6. ReplyTo(Asked(h)) \in Fits(Asked(h))
    BY DEF ReplyTo, Fits
  <2>7. QED  BY <2>2, <2>5, <2>6
<1>8. QED  BY <1>5, <1>6, <1>7 DEF Channel

\* Who is in a Send is known from where it is.
LEMMA SendersStep ==
  ASSUME Typed, SendersKnown, [Next]_vars
  PROVE  SendersKnown'
<1>a. /\ pc \in [Agents -> Steps] /\ using \in [Goroutines -> 0..dials]
      /\ client \in 1..dials /\ polled \in 1..dials /\ dials \in Nat
      /\ "dog" \notin Agents /\ "dog" \in Goroutines /\ "sync" \in Agents
      /\ Agents \subseteq Goroutines
  BY CallersAssumption
     DEF Typed, TypeOK, ControllerTypeOK, IpcTypeOK, Agents, Users, Goroutines
<1>1. ASSUME UNCHANGED <<pc, dog, using>>
      PROVE  SendersKnown'
  BY <1>1 DEF SendersKnown
<1>2. ASSUME NEW g \in Agents, NEW s, NEW o, UNCHANGED <<dog, using>>,
             At(g, s) \/ Done(g) \/ Begin(g, o),
             s \notin {"reply", "status"}, pc[g] \notin {"reply", "status"}
      PROVE  SendersKnown'
  BY <1>a, <1>2 DEF SendersKnown, At, Done, Begin
<1>3. ASSUME NEW g \in Agents, NEW c \in 1..dials, NEW cmd, NEW s \in {"reply", "status"},
             Send(g, c, cmd), At(g, s), dog' = dog
      PROVE  SendersKnown'
  BY <1>a, <1>3 DEF SendersKnown, Send, At
<1>4. ASSUME NEW g \in Agents, NEW s, NEW o, dog' = dog,
             using' = [using EXCEPT ![g] = 0],
             At(g, s) \/ Done(g) \/ Begin(g, o), s \notin {"reply", "status"}
      PROVE  SendersKnown'
  BY <1>a, <1>4 DEF SendersKnown, At, Done, Begin
<1>5. ASSUME NEW g \in Agents, AgentStep(g)
      PROVE  SendersKnown'
  <2>1. CASE GetIn(g)
    BY <1>2, <2>1 DEF GetIn, NoOp, Enter, ipcVars, managerVars
  <2>2. CASE Ask(g)
    BY <1>a, <1>2, <1>3, <2>2
       DEF Ask, Request, GiveUp, Refused, ipcVars, managerVars
  <2>3. CASE Hear(g)
    <3>1. pc[g] = "reply" /\ dog' = dog /\ (At(g, "commit") \/ Done(g))
      BY <2>3 DEF Hear, Reply, GiveUp, managerVars
    <3>2. Failed(g) \/ \E r \in Replies : Answered(g, r)
      BY <2>3 DEF Hear, Reply, Replies
    <3>3. using' = [using EXCEPT ![g] = 0]
      BY <3>2 DEF Answered, Failed
    <3>4. CASE At(g, "commit")
      BY <1>a, <1>5, <3>1, <3>3, <3>4 DEF SendersKnown, At
    <3>5. CASE Done(g)
      BY <1>a, <1>5, <3>1, <3>3, <3>5 DEF SendersKnown, Done
    <3>6. QED  BY <3>1, <3>4, <3>5
  <2>4. CASE Record(g) \/ Tell(g) \/ Release(g)
    BY <1>2, <2>4
       DEF Record, Commit, Tell, Desire, SetDesiredLock, Release, Finish, ipcVars,
           managerVars
  <2>5. QED  BY <1>5, <2>1, <2>2, <2>3, <2>4 DEF AgentStep
<1>6. CASE StartPoll
  BY <1>a, <1>2, <1>6 DEF StartPoll, Poll, ipcVars, managerVars
<1>7. CASE AskStatus
  BY <1>a, <1>2, <1>3, <1>7 DEF AskStatus, Query, Refused, ipcVars, managerVars
<1>8. CASE HearStatus
  BY <1>a, <1>4, <1>8 DEF HearStatus, Status, Answered, Failed, managerVars
<1>9. CASE Arrive \/ TimerFires
  BY <1>a, <1>2, <1>9
     DEF Arrive, Click, HandleHotkey, Command, TimerFires, IdleFires, ipcVars,
         managerVars, Agents, Users
<1>10. ASSUME UNCHANGED <<pc, using>>,
              dog \notin {"pong", "relocked", "confirm"},
              dog' \notin {"pong", "relocked", "confirm"}
       PROVE  SendersKnown'
  BY <1>10 DEF SendersKnown
<1>11. ASSUME pc' = pc, using' = [using EXCEPT !["dog"] = 0],
              dog' \notin {"pong", "relocked", "confirm"}
       PROVE  SendersKnown'
  BY <1>a, <1>11 DEF SendersKnown
<1>12. ASSUME NEW cmd, NEW s \in {"pong", "relocked", "confirm"},
              NEW r \in {"close", "adopt", "rest"}, pc' = pc,
              dog \in {"ping", "relock", "combo"}, DogSends(cmd, s, r)
       PROVE  SendersKnown'
  <2>1. CASE Refused(mClient) /\ GoTo(r)
    BY <1>10, <1>12, <2>1 DEF Refused, ipcVars, GoTo
  <2>2. CASE Send("dog", mClient, cmd) /\ GoTo(s)
    <3>1. mClient \in 1..dials
      BY <1>12 DEF Typed, TypeOK, ManagerTypeOK, IpcTypeOK, DogHasClient
    <3>2. QED  BY <1>a, <1>12, <2>2, <3>1 DEF Send, GoTo, SendersKnown
  <2>3. QED  BY <1>12, <2>1, <2>2 DEF DogSends
<1>13. CASE DogStep
  <2>1. pc' = pc
    BY <1>13 DEF DogStep, Tick, DogWorks, DogAdopt, SetClient, controllerVars
  <2>2. CASE DogPing \/ DogRelock \/ DogCombo
    BY <1>12, <2>1, <2>2 DEF DogPing, DogRelock, DogCombo
  <2>3. CASE DogPong \/ DogRelocked \/ DogConfirm
    BY <1>11, <2>1, <2>3
       DEF DogPong, DogRelocked, DogConfirm, DogHears, GoTo, Answered, Failed
  <2>4. CASE Tick \/ DogClose \/ DogLaunch \/ DogLaunchFails \/ DogDial
             \/ DogDialFails \/ DogRestore \/ DogAdopt
    BY <1>10, <2>1, <2>4
       DEF Tick, DogTick, DogClose, DogLaunch, DogLaunchFails, DogDial,
           DogDialFails, DogRestore, DogAdopt, GoTo, Close, Launch, Dial, ipcVars
  <2>5. QED  BY <1>13, <2>2, <2>3, <2>4 DEF DogStep, DogWorks
<1>14. CASE SentinelWorks \/ SentinelFate \/ TrayReady \/ UNCHANGED vars
  BY <1>1, <1>14
     DEF SentinelWorks, Serve, SeesHangup, SentinelFate, SelfUnlock, Crash,
         TrayReady, OnReady, vars, ipcVars, managerVars, controllerVars
<1>15. QED
  BY <1>5, <1>6, <1>7, <1>8, <1>9, <1>13, <1>14 DEF Next, SyncStep, Agents

\* Every step keeps requests and answers in step.
LEMMA ChannelStepKeeps ==
  ASSUME Typed, SendersKnown, Channel, [Next]_vars
  PROVE  Channel'
<1>a. /\ IpcTypeOK /\ client \in 1..dials /\ polled \in 1..dials
      /\ "dog" \notin Agents /\ "sync" \notin Users
      /\ Goroutines = Agents \cup {"dog"} /\ Agents = Users \cup {"sync"}
      /\ Waiting \subseteq Goroutines
      /\ op \in [Agents -> Ops] /\ using \in [Goroutines -> 0..dials]
  BY CallersAssumption
     DEF Typed, TypeOK, ControllerTypeOK, IpcTypeOK, Agents, Users, Goroutines,
         Waiting
<1>b. \A h \in Waiting : h \in Agents => pc[h] \in {"reply", "status"}
  BY DEF Waiting, SendersKnown
<1>c. "dog" \in Waiting => dog \in {"pong", "relocked", "confirm"}
  BY DEF Waiting, SendersKnown
<1>1. ASSUME UNCHANGED ipcVars, UNCHANGED <<op, dog>>
      PROVE  Channel'
  BY <1>a, <1>1, AskedStable, ChannelKept
<1>2. ASSUME UNCHANGED <<ipcVars, dog>>, NEW g \in Agents,
             pc[g] \notin {"reply", "status"}, \A h \in Agents \ {g} : op'[h] = op[h]
      PROVE  Channel'
  BY <1>a, <1>b, <1>2, AskedStable, ChannelKept
<1>3. ASSUME NEW g \in Agents, dog' = dog,
             Failed(g) \/ \E r : Answered(g, r),
             \A h \in Agents \ {g} : op'[h] = op[h]
      PROVE  Channel'
  BY <1>a, <1>3, AskedStable, ChannelFailed, ChannelAnswered
<1>4. ASSUME NEW g \in Agents, NEW o, At(g, o) \/ Done(g) \/ Begin(g, o)
      PROVE  \A h \in Agents \ {g} : op'[h] = op[h]
  BY <1>a, <1>4 DEF At, Done, Begin
<1>5. ASSUME NEW g \in Agents, AgentStep(g)
      PROVE  Channel'
  <2>1. CASE GetIn(g)
    BY <1>2, <1>4, <2>1 DEF GetIn, NoOp, Enter, managerVars
  <2>2. CASE Ask(g)
    <3>1. CASE Send(g, client, op[g]) /\ At(g, "reply")
      <4>1. pc[g] = "request"  BY <2>2 DEF Ask, Request
      <4>2. g \in Users /\ op[g] \in Commands
        BY <1>a, <4>1 DEF Typed, MutexDiscipline, Ops, Commands
      <4>3. using[g] = 0  BY <4>1 DEF SendersKnown
      <4>4. Asked(g)' = op[g]
        <5>1. op' = op  BY <3>1 DEF At
        <5>2. QED  BY <1>a, <4>2, <5>1 DEF Asked
      <4>5. QED  BY <1>a, <3>1, <4>2, <4>3, <4>4, ChannelSend
    <3>2. CASE Refused(client) /\ GiveUp(g)
      BY <1>2, <1>4, <2>2, <3>2 DEF Ask, Request, Refused, GiveUp, managerVars
    <3>3. QED  BY <2>2, <3>1, <3>2 DEF Ask, Request
  <2>3. CASE Hear(g)
    BY <1>3, <1>4, <2>3 DEF Hear, Reply, GiveUp, managerVars
  <2>4. CASE Record(g) \/ Tell(g) \/ Release(g)
    BY <1>2, <1>4, <2>4
       DEF Record, Commit, Tell, Desire, SetDesiredLock, Release, Finish,
           managerVars
  <2>5. QED  BY <1>5, <2>1, <2>2, <2>3, <2>4 DEF AgentStep
<1>6. CASE StartPoll
  BY <1>a, <1>2, <1>4, <1>6 DEF StartPoll, Poll, managerVars
<1>7. CASE AskStatus
  <2>1. pc["sync"] = "query" /\ using["sync"] = 0
    BY <1>a, <1>7 DEF AskStatus, Query, SendersKnown
  <2>2. CASE Send("sync", polled, "STATUS")
    <3>1. Asked("sync")' = "STATUS"  BY <1>a DEF Asked
    <3>2. QED  BY <1>a, <2>1, <2>2, <3>1, ChannelSend DEF Commands
  <2>3. CASE Refused(polled) /\ At("sync", "rest")
    BY <1>a, <1>1, <1>7, <2>3 DEF AskStatus, Refused, At, managerVars
  <2>4. QED  BY <1>7, <2>2, <2>3 DEF AskStatus, Query
<1>8. CASE HearStatus
  BY <1>a, <1>3, <1>4, <1>8 DEF HearStatus, Status, managerVars
<1>9. CASE Arrive \/ TimerFires
  BY <1>a, <1>2, <1>4, <1>9
     DEF Arrive, Click, HandleHotkey, Command, TimerFires, IdleFires, managerVars,
         Users
<1>10. ASSUME UNCHANGED <<ipcVars, op>>, dog \notin {"pong", "relocked", "confirm"}
       PROVE  Channel'
  BY <1>a, <1>c, <1>10, AskedStable, ChannelKept
<1>11. ASSUME Failed("dog") \/ (\E r : Answered("dog", r)), op' = op
       PROVE  Channel'
  BY <1>a, <1>11, AskedStable, ChannelFailed, ChannelAnswered
<1>12. ASSUME NEW cmd \in Commands, NEW s, NEW r, op' = op,
              dog \in {"ping", "relock", "combo"}, DogSends(cmd, s, r),
              dog' = s => Asked("dog")' = cmd
       PROVE  Channel'
  <2>1. CASE Refused(mClient) /\ GoTo(r)
    BY <1>10, <1>12, <2>1 DEF Refused
  <2>2. CASE Send("dog", mClient, cmd) /\ GoTo(s)
    <3>1. mClient \in 1..dials
      BY <1>12 DEF Typed, TypeOK, ManagerTypeOK, IpcTypeOK, DogHasClient
    <3>2. using["dog"] = 0  BY <1>12 DEF SendersKnown
    <3>3. Asked("dog")' = cmd  BY <1>12, <2>2 DEF GoTo
    <3>4. QED  BY <1>a, <2>2, <3>1, <3>2, <3>3, ChannelSend
  <2>3. QED  BY <1>12, <2>1, <2>2 DEF DogSends
<1>13. CASE DogStep
  <2>1. op' = op
    BY <1>13 DEF DogStep, Tick, DogWorks, DogAdopt, SetClient, controllerVars
  <2>2. /\ dog' = "pong" => Asked("dog")' = "PING"
        /\ dog' = "relocked" => Asked("dog")' = "LOCK"
        /\ dog' = "confirm" => Asked("dog")' = "SET_COMBO"
    BY CallersAssumption DEF Asked, Users
  <2>3. CASE DogPing \/ DogRelock \/ DogCombo
    BY <1>12, <2>1, <2>2, <2>3 DEF DogPing, DogRelock, DogCombo, Commands
  <2>4. CASE DogPong \/ DogRelocked \/ DogConfirm
    BY <1>11, <2>1, <2>4 DEF DogPong, DogRelocked, DogConfirm, DogHears
  <2>5. CASE DogClose
    <3>1. mClient \in 1..dials
      BY <2>5 DEF DogClose, Typed, TypeOK, ManagerTypeOK, IpcTypeOK, DogHasClient
    <3>2. "dog" \notin Waiting  BY <1>c, <2>5 DEF DogClose
    <3>3. \A h \in Waiting : Asked(h)' = Asked(h)
      BY <1>a, <2>1, <3>2, AskedStable
    <3>4. QED  BY <1>a, <2>5, <3>1, <3>3, ChannelClose DEF DogClose
  <2>6. CASE DogDial
    BY <1>a, <2>6, ChannelDial DEF DogDial
  <2>7. CASE Tick \/ DogLaunch \/ DogLaunchFails \/ DogDialFails \/ DogRestore
             \/ DogAdopt
    BY <1>10, <2>1, <2>7
       DEF Tick, DogTick, DogLaunch, Launch, DogLaunchFails, DogDialFails,
           DogRestore, DogAdopt
  <2>8. QED  BY <1>13, <2>3, <2>4, <2>5, <2>6, <2>7 DEF DogStep, DogWorks
<1>14. CASE SentinelWorks
  <2>1. op' = op /\ dog' = dog
    BY <1>14 DEF SentinelWorks, managerVars, controllerVars
  <2>2. \A h \in Waiting : Asked(h)' = Asked(h)
    BY <1>a, <2>1, AskedStable
  <2>3. CASE Serve
    BY <1>a, <2>2, <2>3, ChannelServe
  <2>4. CASE SeesHangup
    BY <1>a, <2>4, ChannelEnds DEF SeesHangup
  <2>5. QED  BY <1>14, <2>3, <2>4 DEF SentinelWorks
<1>15. CASE SentinelFate
  <2>1. CASE Crash
    BY <1>a, <2>1, ChannelEnds DEF Crash
  <2>2. CASE SelfUnlock
    BY <1>1, <1>15, <2>2 DEF SentinelFate, SelfUnlock, managerVars, controllerVars
  <2>3. QED  BY <1>15, <2>1, <2>2 DEF SentinelFate
<1>16. CASE TrayReady \/ UNCHANGED vars
  BY <1>1, <1>16 DEF TrayReady, OnReady, vars, managerVars, controllerVars
<1>17. QED
  BY <1>5, <1>6, <1>7, <1>8, <1>9, <1>13, <1>14, <1>15, <1>16
     DEF Next, SyncStep, Agents

PipeInv == Typed /\ SendersKnown /\ Channel

LEMMA PipeInvInit == Init => PipeInv
<1>1. SUFFICES ASSUME Init PROVE PipeInv  OBVIOUS
<1>2. Typed  BY <1>1, TypedInit
<1>3. SendersKnown
  BY <1>1, CallersAssumption
     DEF Init, IpcInit, ManagerInit, ControllerInit, SendersKnown, Goroutines,
         Agents, Users
<1>4. /\ resp = << >> /\ live = 1 /\ ~hungup
      /\ \A g \in Goroutines : using[g] = 0
  BY <1>1 DEF Init, IpcInit
<1>5. Waiting = {}  BY <1>4 DEF Waiting
<1>6. AnswersOwed /\ (timeouts = 0 => req = << >>)
  <2>1. Len(resp) = 0  BY <1>4
  <2>2. CASE timeouts = 0 /\ req = << >>
    BY <1>5, <2>1, <2>2 DEF AnswersOwed
  <2>3. CASE timeouts = 1 /\ req = <<"SET_COMBO">>
    BY <1>5, <2>1, <2>3 DEF AnswersOwed
  <2>4. QED  BY <1>1, <2>2, <2>3 DEF Init, IpcInit
<1>7. Channel
  BY <1>4, <1>5, <1>6 DEF Channel, PipeDiscipline, RepliesMatchRequests
<1>8. QED  BY <1>2, <1>3, <1>7 DEF PipeInv

LEMMA PipeInvStep == PipeInv /\ [Next]_vars => PipeInv'
BY TypedStep, SendersStep, ChannelStepKeeps DEF PipeInv

\* Until a Send times out, no goroutine ever reads an answer meant for another:
\* the pipe holds the waiting goroutine's request or an answer that fits it, and
\* nothing else (client.go: the client's mutex spans write and read, and Close
\* waits for it).
THEOREM RepliesAlwaysMatch == Spec => []RepliesMatchRequests
<1>1. PipeInv => RepliesMatchRequests  BY DEF PipeInv, Channel
<1>2. QED  BY <1>1, PipeInvInit, PipeInvStep, PTL DEF Spec

\* However many Sends time out, each leaves at most one answer too many behind,
\* and a goroutine that waits always has an answer coming.
THEOREM AnswersAlwaysOwed == Spec => []AnswersOwed
<1>1. PipeInv => AnswersOwed  BY DEF PipeInv, Channel
<1>2. QED  BY <1>1, PipeInvInit, PipeInvStep, PTL DEF Spec

-----------------------------------------------------------------------------
(* The unlock combo of a new sentinel. *)

\* Sends and answers of others change neither what the watchdog holds nor what it
\* waits for.
LEMMA ComboKept ==
  ASSUME ComboComing, TypeOK,
         timeouts' = 0 => timeouts = 0, combo' = combo,
         UNCHANGED <<live, kbd, dog, mClient, hungup>>, using'["dog"] = using["dog"],
         req # <<>> => req' # <<>>
  PROVE  ComboComing'
BY Zenon DEF ComboComing

LEMMA ComboStep ==
  ASSUME PipeInv, ComboComing, [Next]_vars
  PROVE  ComboComing'
<1>a. /\ TypeOK /\ SendersKnown /\ PipeDiscipline /\ RepliesMatchRequests
      /\ "dog" \in Goroutines /\ "dog" \notin Agents /\ Agents \subseteq Goroutines
  BY CallersAssumption
     DEF PipeInv, Typed, Channel, Goroutines, Agents, Users
<1>b. /\ using \in [Goroutines -> 0..dials] /\ timeouts \in Nat /\ dials \in Nat
      /\ req \in Seq(Commands) /\ combo \in BOOLEAN /\ kbd \in BOOLEAN
      /\ hungup \in BOOLEAN /\ live \in Nat
  BY <1>a, TimeoutsAssumption DEF TypeOK, IpcTypeOK, ServerTypeOK
<1>1. ASSUME NEW g \in Agents, NEW c, NEW cmd \in Commands, Send(g, c, cmd),
             UNCHANGED <<serverVars, dog, mClient>>
      PROVE  ComboComing'
  <2>1. using'["dog"] = using["dog"]  BY <1>a, <1>b, <1>1 DEF Send
  <2>2. req' # <<>>  BY <1>b, <1>1 DEF Send
  <2>3. UNCHANGED <<live, hungup, timeouts, combo, kbd>>
    BY <1>1 DEF Send, serverVars
  <2>4. QED  BY <1>a, <1>1, <2>1, <2>2, <2>3, ComboKept
<1>2. ASSUME NEW g \in Agents, Failed(g) \/ \E r \in Replies : Answered(g, r),
             UNCHANGED <<serverVars, dog, mClient>>
      PROVE  ComboComing'
  <2>1. using'["dog"] = using["dog"]  BY <1>a, <1>b, <1>2 DEF Failed, Answered
  <2>2. timeouts' = 0 => timeouts = 0  BY <1>b, <1>2 DEF Failed, Answered
  <2>3. UNCHANGED <<live, hungup, req, combo, kbd>>
    BY <1>2 DEF Failed, Answered, serverVars
  <2>4. QED  BY <1>a, <1>2, <2>1, <2>2, <2>3, ComboKept
<1>3. ASSUME UNCHANGED <<ipcVars, serverVars, dog, mClient>>
      PROVE  ComboComing'
  BY <1>a, <1>3, ComboKept DEF ipcVars, serverVars
<1>4. ASSUME NEW g \in Agents, AgentStep(g)
      PROVE  ComboComing'
  <2>1. CASE GetIn(g) \/ Record(g) \/ Release(g)
    BY <1>3, <2>1 DEF GetIn, Record, Release, managerVars
  <2>2. CASE Tell(g)
    BY <1>3, <2>2 DEF Tell, Desire, SetDesiredLock
  <2>3. CASE Ask(g)
    <3>1. CASE Refused(client)
      BY <1>3, <2>3, <3>1 DEF Ask, Refused, managerVars
    <3>2. CASE ~Refused(client)
      <4>1. pc[g] = "request" /\ Send(g, client, op[g])
            /\ UNCHANGED <<serverVars, dog, mClient>>
        BY <2>3, <3>2 DEF Ask, Request, managerVars
      <4>2. op[g] \in {"LOCK", "UNLOCK"}
        BY <1>a, <1>4, <4>1 DEF PipeInv, Typed, MutexDiscipline, TypeOK, ControllerTypeOK, Ops
      <4>3. QED  BY <1>1, <1>4, <4>1, <4>2 DEF Commands
    <3>3. QED  BY <3>1, <3>2
  <2>4. CASE Hear(g)
    BY <1>2, <1>4, <2>4 DEF Hear, Reply, Replies, managerVars
  <2>5. QED  BY <1>4, <2>1, <2>2, <2>3, <2>4 DEF AgentStep
<1>5. CASE StartPoll \/ AskStatus \/ HearStatus
  <2>1. CASE StartPoll  BY <1>3, <2>1 DEF StartPoll, managerVars
  <2>2. CASE AskStatus
    <3>1. CASE Refused(polled)
      BY <1>3, <2>2, <3>1 DEF AskStatus, Refused, managerVars
    <3>2. CASE ~Refused(polled)
      BY <1>1, <2>2, <3>2 DEF AskStatus, Query, Commands, Agents, managerVars
    <3>3. QED  BY <3>1, <3>2
  <2>3. CASE HearStatus
    BY <1>2, <2>3 DEF HearStatus, Status, Replies, Agents, managerVars
  <2>4. QED  BY <1>5, <2>1, <2>2, <2>3
<1>6. CASE Arrive \/ TimerFires \/ TrayReady \/ UNCHANGED vars
  BY <1>3, <1>6 DEF Arrive, TimerFires, TrayReady, vars, managerVars
\* Until it dials, the watchdog leaves an unconnected sentinel so.
<1>7. ASSUME UNCHANGED <<live, kbd, combo>>, timeouts' = 0 => timeouts = 0,
             dog \notin {"restore", "relock", "relocked", "adopt", "combo", "confirm"}
      PROVE  ComboComing'
  BY <1>7 DEF ComboComing
<1>8. CASE Tick \/ DogLaunch \/ DogLaunchFails \/ DogDialFails \/ DogClose
  BY <1>7, <1>8
     DEF Tick, DogTick, DogLaunch, Launch, DogLaunchFails, DogDialFails, DogClose,
         Close, ipcVars, serverVars
<1>9. CASE DogPing
  BY <1>7, <1>9 DEF DogPing, DogSends, Send, Refused, ipcVars, serverVars
<1>10. CASE DogPong
  <2>1. timeouts' = 0 => timeouts = 0
    BY <1>b, <1>10 DEF DogPong, Answered, Failed
  <2>2. QED  BY <1>7, <1>10, <2>1 DEF DogPong, Answered, Failed, serverVars
<1>11. CASE DogDial
  <2>1. /\ dog' = "restore" /\ mClient' = live' /\ hungup' = hungup /\ ~hungup
        /\ live = 0
    BY <1>a, <1>11 DEF DogDial, Dial, GoTo, PipeDiscipline
  <2>2. QED  BY <2>1 DEF ComboComing
\* From there on it goes from step to step on the connection it has made.
<1>12. ASSUME UNCHANGED <<live, kbd, combo, mClient, hungup>>,
              timeouts' = 0 => timeouts = 0,
              dog \notin {"combo", "confirm"},
              dog \in {"restore", "relock", "relocked", "adopt"} =>
                dog' \in {"restore", "relock", "relocked", "adopt", "combo"}
       PROVE  ComboComing'
  BY <1>12 DEF ComboComing
<1>13. CASE DogRestore
  BY <1>12, <1>13 DEF DogRestore, GoTo, ipcVars, serverVars
<1>14. CASE DogRelock
  BY <1>12, <1>14 DEF DogRelock, DogSends, Send, Refused, GoTo, ipcVars, serverVars
<1>15. CASE DogRelocked
  <2>1. timeouts' = 0 => timeouts = 0
    BY <1>b, <1>15 DEF DogRelocked, DogHears, Answered, Failed
  <2>2. QED
    BY <1>12, <1>15, <2>1
       DEF DogRelocked, DogHears, Answered, Failed, GoTo, serverVars
<1>16. CASE DogAdopt
  BY <1>12, <1>16 DEF DogAdopt, GoTo, ipcVars, serverVars
<1>17. CASE DogCombo
  <2>1. CASE Send("dog", mClient, "SET_COMBO") /\ dog' = "confirm"
    <3>1. using'["dog"] = live /\ live' = live /\ req' # <<>>
      BY <1>a, <1>b, <2>1 DEF Send, Connected
    <3>2. QED  BY <2>1, <3>1 DEF ComboComing
  <2>2. CASE Refused(mClient)
    <3>1. timeouts = 0 /\ ~combo => live = 0 /\ ~kbd
      BY <1>17, <2>2 DEF ComboComing, DogCombo, Refused, Connected
    <3>2. UNCHANGED <<timeouts, combo, live, kbd>>
      BY <1>17, <2>2 DEF DogCombo, DogSends, Refused, ipcVars, serverVars
    <3>3. QED  BY <3>1, <3>2 DEF ComboComing
  <2>3. QED  BY <1>17, <2>1, <2>2 DEF DogCombo, DogSends, GoTo
<1>18. CASE DogConfirm
  <2>1. SUFFICES ASSUME timeouts' = 0, ~combo'
                 PROVE  live' = 0 /\ ~kbd'
    BY DEF ComboComing
  <2>2. timeouts = 0 /\ ~combo /\ UNCHANGED <<live, kbd>>
    BY <1>b, <1>18, <2>1 DEF DogConfirm, DogHears, Answered, Failed, serverVars
  <2>3. dog = "confirm"  BY <1>18 DEF DogConfirm, DogHears
  <2>4. using["dog"] # 0  BY <1>a, <2>3 DEF SendersKnown
  <2>5. CASE using["dog"] = live /\ req # <<>>
    <3>1. "dog" \in Waiting  BY <1>a, <2>4, <2>5 DEF Waiting
    <3>2. resp = <<>>  BY <1>a, <2>2, <2>5, <3>1 DEF RepliesMatchRequests
    <3>3. ~Failed("dog")  BY <1>b, <2>1, <2>2, <2>5 DEF Failed
    <3>4. QED  BY <1>18, <3>2, <3>3 DEF DogConfirm, DogHears, Answered
  <2>6. QED  BY <2>2, <2>3, <2>5 DEF ComboComing
<1>19. CASE SentinelWorks
  <2>1. CASE Serve
    <3>1. UNCHANGED <<live, hungup, using, timeouts, dog, mClient>> /\ live # 0
      BY <1>19, <2>1 DEF SentinelWorks, Serve, managerVars
    <3>2. combo' => combo \/ Head(req) = "SET_COMBO"
      BY <2>1 DEF Serve
    <3>3. SUFFICES ASSUME timeouts = 0, ~combo, ~combo'
                   PROVE  dog # "confirm" \/ using["dog"] # live \/ req = <<>>
      BY <1>b, <2>1, <3>1 DEF ComboComing, Serve
    <3>4. Head(req) # "SET_COMBO"  BY <2>1, <3>3 DEF Serve
    <3>5. SUFFICES ASSUME dog = "confirm", using["dog"] = live, req # <<>>
                   PROVE  FALSE
      OBVIOUS
    <3>6. "dog" \in Waiting  BY <1>a, <3>1, <3>5 DEF Waiting
    <3>7. req = <<Asked("dog")>>  BY <1>a, <3>3, <3>5, <3>6 DEF RepliesMatchRequests
    <3>8. Asked("dog") = "SET_COMBO"
      BY <1>a, <3>5, CallersAssumption DEF Asked, Users
    <3>9. QED  BY <3>4, <3>7, <3>8
  <2>2. CASE SeesHangup
    <3>1. hungup /\ Waiting = {} /\ live # 0
      BY <1>a, <2>2 DEF SeesHangup, PipeDiscipline
    <3>2. "dog" \notin Waiting  BY <3>1
    <3>3. dog = "confirm" => using["dog"] # live
      BY <1>a, <3>2 DEF Waiting, SendersKnown
    <3>4. combo \/ timeouts # 0
      BY <3>1, <3>3 DEF ComboComing
    <3>5. combo' = combo /\ timeouts' = timeouts
      BY <2>2 DEF SeesHangup, serverVars
    <3>6. QED  BY <3>4, <3>5 DEF ComboComing
  <2>3. QED  BY <1>19, <2>1, <2>2 DEF SentinelWorks
<1>20. CASE SentinelFate
  <2>1. CASE SelfUnlock
    <3>1. /\ UNCHANGED <<live, timeouts, using, req, hungup, combo, dog, mClient>>
          /\ kbd' = FALSE
      BY <1>20, <2>1 DEF SentinelFate, SelfUnlock, ipcVars, managerVars
    <3>2. QED  BY <3>1 DEF ComboComing
  <2>2. CASE Crash
    BY <2>2 DEF Crash, ComboComing
  <2>3. QED  BY <1>20, <2>1, <2>2 DEF SentinelFate
<1>21. QED
  BY <1>4, <1>5, <1>6, <1>8, <1>9, <1>10, <1>11, <1>13, <1>14, <1>15, <1>16, <1>17,
     <1>18, <1>19, <1>20
     DEF Next, SyncStep, DogStep, DogWorks, Agents

\* A lock that a restart has restored has its unlock combo once the restart is
\* over, as long as no Send has timed out.
THEOREM LockAlwaysHasCombo == Spec => []LockHasCombo
<1>1. Init => ComboComing  BY DEF Init, ComboComing
<1>2. PipeInv /\ ComboComing /\ [Next]_vars => ComboComing'  BY ComboStep
<1>3. ComboComing => LockHasCombo  BY DEF ComboComing, LockHasCombo
<1>4. QED  BY <1>1, <1>2, <1>3, PipeInvInit, PipeInvStep, PTL DEF Spec
=============================================================================
