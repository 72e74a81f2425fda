--------------------------- MODULE ServiceProofs ---------------------------
(***************************************************************************)
(* The running program implements LockService: a proof for every set of    *)
(* control connections and every number of faults.                         *)
(***************************************************************************)
EXTENDS KbdlockProofs

-----------------------------------------------------------------------------
(* Nothing is restarted as long as nothing goes wrong. *)

\* Before the first crash and the first timeout there is one connection, and the
\* watchdog only pings.
Quiet ==
  crashes = 0 /\ timeouts = 0 =>
    /\ live = 1 /\ dials = 1 /\ ~hungup
    /\ mClient = 1 /\ dog \in {"rest", "ping", "pong"}

ServiceInv == PipeInv /\ Quiet

LEMMA QuietInit == Init => Quiet
BY DEF Init, IpcInit, ManagerInit, Quiet

\* Neither count goes down.
LEMMA FaultsStay ==
  ASSUME Typed, [Next]_vars
  PROVE  /\ crashes > 0 => crashes' > 0
         /\ timeouts > 0 => timeouts' > 0
         /\ crashes' = 0 /\ timeouts' = 0 => crashes = 0 /\ timeouts = 0
<1>a. crashes \in Nat /\ timeouts \in Nat
  BY CrashesAssumption, TimeoutsAssumption
     DEF Typed, TypeOK, IpcTypeOK, ServerTypeOK
<1>1. SUFFICES /\ crashes' \in {crashes, crashes + 1}
               /\ timeouts' \in {timeouts, timeouts + 1}
  BY <1>a
<1>2. ASSUME NEW g \in Agents, AgentStep(g)
      PROVE  crashes' = crashes /\ timeouts' \in {timeouts, timeouts + 1}
  BY <1>2
     DEF AgentStep, GetIn, Ask, Request, Send, Refused, Hear, Reply, Answered, Failed,
         Record, Tell, Release, ipcVars, serverVars
<1>3. CASE StartPoll \/ AskStatus \/ HearStatus
  BY <1>3
     DEF StartPoll, AskStatus, Query, Send, Refused, HearStatus, Status, Answered,
         Failed, ipcVars, serverVars
<1>4. CASE Tick \/ DogAdopt
  BY <1>4 DEF Tick, DogTick, DogAdopt, ipcVars, serverVars
<1>5. CASE DogPing \/ DogPong \/ DogRelock \/ DogRelocked \/ DogCombo \/ DogConfirm
  BY <1>5
     DEF DogPing, DogPong, DogRelock, DogRelocked, DogCombo, DogConfirm, DogSends,
         DogHears, Send, Refused, Answered, Failed, ipcVars, serverVars
<1>6. CASE DogClose \/ DogLaunch \/ DogLaunchFails \/ DogDial \/ DogDialFails
           \/ DogRestore
  BY <1>6
     DEF DogClose, Close, DogLaunch, Launch, DogLaunchFails, DogDial, Dial,
         DogDialFails, DogRestore, ipcVars, serverVars
<1>7. CASE SentinelWorks \/ SentinelFate
  BY <1>7
     DEF SentinelWorks, SentinelFate, Serve, SeesHangup, SelfUnlock, Crash, ipcVars,
         serverVars
<1>8. CASE Arrive \/ TimerFires \/ TrayReady \/ UNCHANGED vars
  BY <1>8 DEF Arrive, TimerFires, TrayReady, vars, ipcVars, serverVars
<1>9. QED
  BY <1>2, <1>3, <1>4, <1>5, <1>6, <1>7, <1>8
     DEF Next, SyncStep, DogStep, DogWorks, Agents

\* A ping is answered with a PONG and a write to the connection succeeds, so no
\* restart begins.
LEMMA QuietStep ==
  ASSUME PipeInv, Quiet, [Next]_vars
  PROVE  Quiet'
<1>1. SUFFICES ASSUME crashes' = 0, timeouts' = 0
               PROVE  /\ live' = 1 /\ dials' = 1 /\ ~hungup'
                      /\ mClient' = 1 /\ dog' \in {"rest", "ping", "pong"}
  BY DEF Quiet
<1>a. /\ Typed /\ SendersKnown /\ Channel
      /\ crashes = 0 /\ timeouts = 0 /\ live = 1 /\ dials = 1 /\ ~hungup
      /\ mClient = 1 /\ dog \in {"rest", "ping", "pong"}
      /\ \A g \in Goroutines : using[g] \in {0, 1}
  <2>1. PipeInv /\ crashes = 0 /\ timeouts = 0  BY <1>1, FaultsStay DEF PipeInv
  <2>2. dials = 1  BY <2>1 DEF Quiet
  <2>3. \A g \in Goroutines : using[g] \in 0..1
    BY <2>1, <2>2 DEF PipeInv, Typed, TypeOK, IpcTypeOK
  <2>4. QED  BY <2>1, <2>3 DEF PipeInv, Quiet
<1>2. ASSUME NEW g \in Agents, AgentStep(g)
      PROVE  UNCHANGED <<live, dials, hungup, mClient, dog>>
  BY <1>2
     DEF AgentStep, GetIn, Ask, Request, Send, Refused, Hear, Reply, Answered, Failed,
         Record, Tell, Desire, SetDesiredLock, Release, ipcVars, managerVars
<1>3. CASE StartPoll \/ AskStatus \/ HearStatus
  BY <1>a, <1>3
     DEF StartPoll, AskStatus, Query, Send, Refused, HearStatus, Status, Answered,
         Failed, ipcVars, managerVars
<1>4. CASE Tick \/ DogAdopt
  BY <1>a, <1>4 DEF Tick, DogTick, DogAdopt, GoTo, ipcVars
<1>5. CASE DogPing
  <2>1. ~Refused(mClient)  BY <1>a DEF Refused, Connected
  <2>2. QED  BY <1>a, <1>5, <2>1 DEF DogPing, DogSends, Send, GoTo
<1>6. CASE DogPong
  <2>1. using["dog"] = 1 /\ "dog" \in Goroutines
    BY <1>a, <1>6 DEF DogPong, SendersKnown, Goroutines
  <2>2. ~Failed("dog")  BY <1>a, <1>1, <2>1 DEF Failed
  <2>3. ASSUME NEW r \in Replies, Answered("dog", r)
        PROVE  r = "PONG"
    <3>1. "dog" \in Waiting  BY <1>a, <2>1 DEF Waiting
    <3>2. \E a \in Fits(Asked("dog")) : resp = <<a>>
      BY <1>a, <2>3, <3>1 DEF Channel, RepliesMatchRequests, Answered
    <3>3. Asked("dog") = "PING"
      BY <1>6, CallersAssumption DEF Asked, DogPong, Users
    <3>4. QED  BY <2>3, <3>2, <3>3 DEF Answered, Fits
  <2>4. QED  BY <1>a, <1>6, <2>2, <2>3 DEF DogPong, Answered, GoTo
<1>7. CASE DogRelock \/ DogRelocked \/ DogCombo \/ DogConfirm \/ DogClose \/ DogLaunch
           \/ DogLaunchFails \/ DogDial \/ DogDialFails \/ DogRestore
  BY <1>a, <1>7
     DEF DogRelock, DogRelocked, DogCombo, DogConfirm, DogClose, DogLaunch,
         DogLaunchFails, DogDial, DogDialFails, DogRestore, DogHears
<1>8. CASE SentinelWorks \/ SentinelFate
  BY <1>a, <1>1, <1>8
     DEF SentinelWorks, SentinelFate, Serve, SeesHangup, SelfUnlock, Crash, ipcVars,
         managerVars
<1>9. CASE Arrive \/ TimerFires \/ TrayReady \/ UNCHANGED vars
  BY <1>a, <1>9 DEF Arrive, TimerFires, TrayReady, vars, ipcVars, managerVars
<1>10. QED
  BY <1>a, <1>2, <1>3, <1>4, <1>5, <1>6, <1>7, <1>8, <1>9
     DEF Next, SyncStep, DogStep, DogWorks, Agents

-----------------------------------------------------------------------------
(* Every step of the program is a step of LockService, or none. *)

Call == IF Calling THEN op[mu] ELSE "none"

\* What the steps of everybody but the holder of c.mu, the poller and the sentinel
\* leave alone.
LEMMA Stutter ==
  ASSUME UNCHANGED <<kbd, locked>>, Call' = Call,
         Effective' <=> Effective, SeenUnlocked' <=> SeenUnlocked,
         crashes' > 0 <=> crashes > 0, timeouts' > 0 <=> timeouts > 0
  PROVE  UNCHANGED Service!vars
<1>1. (IF Calling THEN op[mu] ELSE "none")' = IF Calling THEN op[mu] ELSE "none"
  BY DEF Call
<1>2. Effective' = Effective /\ SeenUnlocked' = SeenUnlocked
  BY Zenon
<1>3. (crashes > 0)' = (crashes > 0) /\ (timeouts > 0)' = (timeouts > 0)
  OBVIOUS
<1>4. QED  BY <1>1, <1>2, <1>3, Zenon DEF Service!vars

\* The same for a step that changes one thing, as the abstract actions do.
LEMMA Untrue ==
  ASSUME NEW b \in BOOLEAN, ~b
  PROVE  b = FALSE
OBVIOUS

LEMMA MappedTyped ==
  /\ Effective \in BOOLEAN /\ Effective' \in BOOLEAN
  /\ SeenUnlocked \in BOOLEAN /\ SeenUnlocked' \in BOOLEAN
BY Zenon DEF Effective, SeenUnlocked

LEMMA FaultsSame ==
  ASSUME crashes' = crashes, timeouts' = timeouts
  PROVE  (crashes > 0)' = (crashes > 0) /\ (timeouts > 0)' = (timeouts > 0)
OBVIOUS

LEMMA Asks ==
  ASSUME UNCHANGED <<kbd, locked, crashes, timeouts>>, NEW o,
         Call = "none", Call' = o, locked # (o = "LOCK"),
         timeouts > 0 \/ ~Effective', SeenUnlocked' <=> SeenUnlocked
  PROVE  Service!Ask(o)
<1>1. (IF Calling THEN op[mu] ELSE "none") = "none"
      /\ (IF Calling THEN op[mu] ELSE "none")' = o
  BY DEF Call
<1>2. SeenUnlocked' = SeenUnlocked  BY Zenon
<1>3. Effective' \in (IF timeouts > 0 THEN BOOLEAN ELSE {FALSE})
  <2>1. CASE timeouts > 0
    BY <2>1, Zenon DEF Effective
  <2>2. CASE ~(timeouts > 0)
    <3>1. Effective' = FALSE  BY <2>2, Untrue, MappedTyped
    <3>2. QED  BY <2>2, <3>1, Zenon
  <2>3. QED  BY <2>1, <2>2
<1>4. QED  BY <1>1, <1>2, <1>3, FaultsSame, Zenon DEF Service!Ask

LEMMA Acts ==
  ASSUME UNCHANGED <<locked, crashes, timeouts>>,
         Call # "none", Call' = Call, ~Effective, Effective',
         kbd' = (Call = "LOCK"), SeenUnlocked' <=> SeenUnlocked
  PROVE  Service!Act
<1>1. (IF Calling THEN op[mu] ELSE "none") # "none"
      /\ (IF Calling THEN op[mu] ELSE "none")' = (IF Calling THEN op[mu] ELSE "none")
      /\ kbd' = ((IF Calling THEN op[mu] ELSE "none") = "LOCK")
  BY DEF Call
<1>2. SeenUnlocked' = SeenUnlocked /\ Effective' = TRUE  BY Zenon
<1>3. QED  BY <1>1, <1>2, FaultsSame, Zenon DEF Service!Act

LEMMA Answers ==
  ASSUME UNCHANGED <<kbd, crashes, timeouts>>,
         Effective, ~Effective', locked' = (Call = "LOCK"), Call' = "none",
         SeenUnlocked' <=> SeenUnlocked
  PROVE  Service!Answer
<1>1. (IF Calling THEN op[mu] ELSE "none")' = "none"
      /\ locked' = ((IF Calling THEN op[mu] ELSE "none") = "LOCK")
  BY DEF Call
<1>2. SeenUnlocked' = SeenUnlocked  BY Zenon
<1>f. Effective' = FALSE  BY Untrue, MappedTyped
<1>3. QED  BY <1>1, <1>2, <1>f, FaultsSame, Zenon DEF Service!Answer

LEMMA Fails ==
  ASSUME UNCHANGED <<kbd, locked, crashes, timeouts>>,
         crashes > 0 \/ timeouts > 0, Call # "none", Call' = "none", ~Effective',
         SeenUnlocked' <=> SeenUnlocked
  PROVE  Service!Fail
<1>1. (IF Calling THEN op[mu] ELSE "none")' = "none"
      /\ (IF Calling THEN op[mu] ELSE "none") # "none"
  BY DEF Call
<1>2. SeenUnlocked' = SeenUnlocked  BY Zenon
<1>f. Effective' = FALSE  BY Untrue, MappedTyped
<1>3. QED  BY <1>1, <1>2, <1>f, FaultsSame, Zenon DEF Service!Fail, Service!Faulty

LEMMA Sees ==
  ASSUME UNCHANGED <<kbd, locked, crashes, timeouts>>, ~kbd, SeenUnlocked',
         Call' = Call, Effective' <=> Effective
  PROVE  Service!See
<1>1. (IF Calling THEN op[mu] ELSE "none")' = IF Calling THEN op[mu] ELSE "none"
  BY DEF Call
<1>2. SeenUnlocked' = TRUE /\ Effective' = Effective  BY Zenon
<1>3. QED  BY <1>1, <1>2, FaultsSame, Zenon DEF Service!See

LEMMA Forgets ==
  ASSUME UNCHANGED <<kbd, locked, crashes, timeouts>>, ~SeenUnlocked',
         Call' = Call, Effective' <=> Effective
  PROVE  Service!Forget
<1>1. (IF Calling THEN op[mu] ELSE "none")' = IF Calling THEN op[mu] ELSE "none"
  BY DEF Call
<1>2. Effective' = Effective  BY Zenon
<1>f. SeenUnlocked' = FALSE  BY Untrue, MappedTyped
<1>3. QED  BY <1>1, <1>2, <1>f, FaultsSame, Zenon DEF Service!Forget

LEMMA Corrects ==
  ASSUME UNCHANGED <<kbd, crashes, timeouts>>, SeenUnlocked, ~SeenUnlocked',
         ~Calling, ~Calling', locked' = FALSE
  PROVE  Service!Correct
<1>1. (IF Calling THEN op[mu] ELSE "none")' = (IF Calling THEN op[mu] ELSE "none")
      /\ (IF Calling THEN op[mu] ELSE "none") = "none"
  OBVIOUS
<1>2. Effective' = FALSE /\ Effective = FALSE
  <2>1. ~Effective /\ ~Effective'  BY DEF Effective
  <2>2. QED  BY <2>1, Untrue, MappedTyped
<1>3. SeenUnlocked' = FALSE  BY Untrue, MappedTyped
<1>4. QED  BY <1>1, <1>2, <1>3, FaultsSame, Zenon DEF Service!Correct

LEMMA Restores ==
  ASSUME UNCHANGED <<locked, crashes, timeouts>>, crashes > 0 \/ timeouts > 0,
         kbd' = TRUE, Call' = Call, Effective' <=> Effective,
         SeenUnlocked' <=> SeenUnlocked
  PROVE  Service!Restore
<1>1. (IF Calling THEN op[mu] ELSE "none")' = IF Calling THEN op[mu] ELSE "none"
  BY DEF Call
<1>2. SeenUnlocked' = SeenUnlocked /\ Effective' = Effective  BY Zenon
<1>3. QED  BY <1>1, <1>2, FaultsSame, Zenon DEF Service!Restore, Service!Faulty

LEMMA Unlocks ==
  ASSUME UNCHANGED <<locked, crashes, timeouts>>, kbd, kbd' = FALSE,
         Call' = Call, Effective' <=> Effective, SeenUnlocked' <=> SeenUnlocked
  PROVE  Service!SelfUnlock
<1>1. (IF Calling THEN op[mu] ELSE "none")' = IF Calling THEN op[mu] ELSE "none"
  BY DEF Call
<1>2. SeenUnlocked' = SeenUnlocked /\ Effective' = Effective  BY Zenon
<1>3. QED  BY <1>1, <1>2, FaultsSame, Zenon DEF Service!SelfUnlock

LEMMA Crashes ==
  ASSUME UNCHANGED <<locked, timeouts>>, crashes' > 0, kbd' = FALSE, Call' = Call,
         Effective' => Effective, SeenUnlocked' => SeenUnlocked
  PROVE  Service!Crash
<1>1. (IF Calling THEN op[mu] ELSE "none")' = IF Calling THEN op[mu] ELSE "none"
  BY DEF Call
<1>2. Effective' \in {Effective, FALSE} /\ SeenUnlocked' \in {SeenUnlocked, FALSE}
  BY MappedTyped
<1>3. (crashes > 0)' = TRUE /\ (timeouts > 0)' = (timeouts > 0)  OBVIOUS
<1>4. QED  BY <1>1, <1>2, <1>3, Zenon DEF Service!Crash

LEMMA Loses ==
  ASSUME UNCHANGED <<kbd, locked, crashes>>, timeouts' > 0,
         \/ Call' = Call /\ (Effective' <=> Effective)
         \/ Call' = "none" /\ ~Effective',
         SeenUnlocked' => SeenUnlocked
  PROVE  Service!Lose
<1>1. \/ /\ (IF Calling THEN op[mu] ELSE "none")' = IF Calling THEN op[mu] ELSE "none"
         /\ Effective' = Effective
      \/ (IF Calling THEN op[mu] ELSE "none")' = "none" /\ Effective' = FALSE
  <2>1. CASE Call' = Call /\ (Effective' <=> Effective)
    <3>1. Effective' = Effective  BY <2>1, Zenon
    <3>2. QED  BY <2>1, <3>1 DEF Call
  <2>2. CASE Call' = "none" /\ ~Effective'
    <3>1. Effective' = FALSE  BY <2>2, Untrue, MappedTyped
    <3>2. QED  BY <2>2, <3>1 DEF Call
  <2>3. QED  BY <2>1, <2>2
<1>2. SeenUnlocked' \in {SeenUnlocked, FALSE}  BY MappedTyped
<1>3. (timeouts > 0)' = TRUE /\ (crashes > 0)' = (crashes > 0)  OBVIOUS
<1>4. QED  BY <1>1, <1>2, <1>3, Zenon DEF Service!Lose

LEMMA IsLate ==
  ASSUME UNCHANGED <<locked, crashes>>, timeouts > 0, timeouts' > 0,
         kbd' \in BOOLEAN, Call' = Call, Call = "none" => ~Effective'
  PROVE  Service!Late
<1>1. (IF Calling THEN op[mu] ELSE "none")' = IF Calling THEN op[mu] ELSE "none"
  BY DEF Call
<1>2. Effective' \in (IF (IF Calling THEN op[mu] ELSE "none") = "none"
                      THEN {FALSE} ELSE BOOLEAN)
  <2>1. CASE Call = "none"
    <3>1. Effective' = FALSE  BY <2>1, Untrue, MappedTyped
    <3>2. QED  BY <2>1, <3>1, Zenon DEF Call
  <2>2. CASE Call # "none"
    <3>1. Effective' \in BOOLEAN  BY Zenon DEF Effective
    <3>2. QED  BY <2>2, <3>1, Zenon DEF Call
  <2>3. QED  BY <2>1, <2>2
<1>3. SeenUnlocked' \in BOOLEAN  BY Zenon DEF SeenUnlocked
<1>4. (timeouts > 0)' = (timeouts > 0) /\ (crashes > 0)' = (crashes > 0)  OBVIOUS
<1>5. QED  BY <1>1, <1>2, <1>3, <1>4, Zenon DEF Service!Late

\* The facts about goroutines that the steps below share: who holds c.mu, and
\* that only one goroutine waits on the connection.
LEMMA Facts ==
  ASSUME ServiceInv
  PROVE  /\ pc \in [Agents -> Steps] /\ op \in [Agents -> Ops]
         /\ mu \in Agents \cup {"none"} /\ kbd \in BOOLEAN /\ locked \in BOOLEAN
         /\ Agents = Users \cup {"sync"} /\ "sync" \notin Users
         /\ "none" \notin Agents /\ Goroutines = Agents \cup {"dog"}
         /\ "dog" \notin Agents
         /\ \A g \in Agents : /\ mu = g <=> pc[g] \in Holding
                              /\ op[g] = "none" <=> pc[g] \in {"rest", "query", "status"}
                              /\ using[g] # 0 <=> pc[g] \in {"reply", "status"}
         /\ \A g \in Users : pc[g] \notin {"query", "status"} /\ op[g] # "SYNC"
         /\ pc["sync"] \notin {"request", "reply"}
         /\ op["sync"] \in {"none", "SYNC"}
         /\ \A g, h \in Goroutines : using[g] # 0 /\ using[g] = using[h] => g = h
         /\ crashes \in Nat /\ timeouts \in Nat
         /\ using \in [Goroutines -> 0..dials] /\ dials \in Nat
         /\ client \in 1..dials /\ polled \in 1..dials
<1>1. Typed /\ SendersKnown /\ PipeDiscipline
  BY DEF ServiceInv, PipeInv, Channel
<1>2. /\ Agents = Users \cup {"sync"} /\ "sync" \notin Users
      /\ "none" \notin Agents /\ Goroutines = Agents \cup {"dog"}
      /\ "dog" \notin Agents
  BY CallersAssumption DEF Agents, Users, Goroutines
<1>3. /\ pc \in [Agents -> Steps] /\ op \in [Agents -> Ops]
      /\ mu \in Agents \cup {"none"} /\ kbd \in BOOLEAN /\ locked \in BOOLEAN
      /\ crashes \in Nat /\ timeouts \in Nat
      /\ using \in [Goroutines -> 0..dials] /\ dials \in Nat
      /\ client \in 1..dials /\ polled \in 1..dials
  BY <1>1, CrashesAssumption, TimeoutsAssumption
     DEF Typed, TypeOK, ControllerTypeOK, ServerTypeOK, IpcTypeOK
<1>4. \A g \in Agents : /\ mu = g <=> pc[g] \in Holding
                        /\ op[g] = "none" <=> pc[g] \in {"rest", "query", "status"}
                        /\ using[g] # 0 <=> pc[g] \in {"reply", "status"}
  BY <1>1 DEF Typed, MutexDiscipline, SendersKnown
<1>5. \A g \in Users : pc[g] \notin {"query", "status"} /\ op[g] # "SYNC"
  BY <1>1, <1>2 DEF Typed, MutexDiscipline
<1>6. pc["sync"] \notin {"request", "reply"} /\ op["sync"] \in {"none", "SYNC"}
  BY <1>1, <1>2, <1>3 DEF Typed, MutexDiscipline, Ops
<1>7. QED  BY <1>1, <1>2, <1>3, <1>4, <1>5, <1>6 DEF PipeDiscipline

\* A goroutine that arrives, and the poller before it asks, hold nothing.
LEMMA OutsideStep ==
  ASSUME ServiceInv, NEW g \in Agents, NEW s, NEW o,
         pc[g] \in {"rest", "query"},
         At(g, s) \/ Begin(g, o),
         At(g, s) => g = "sync" /\ s \in {"rest", "query"},
         Begin(g, o) => g \in Users,
         UNCHANGED <<kbd, locked, mu, using, live, resp, crashes, timeouts>>
  PROVE  UNCHANGED Service!vars
<1>1. mu # g  BY Facts DEF Holding
<1>2. Calling' <=> Calling  BY <1>1, Facts DEF Calling, At, Begin
<1>3. Calling => pc'[mu] = pc[mu] /\ op'[mu] = op[mu]
  BY <1>1, Facts DEF Calling, At, Begin
<1>4. Call' = Call  BY <1>2, <1>3 DEF Call
<1>5. Effective' <=> Effective  BY <1>2, <1>3 DEF Effective, Heard
<1>6. SeenUnlocked' <=> SeenUnlocked
  BY Facts DEF SeenUnlocked, At, Begin, Heard
<1>7. QED  BY <1>4, <1>5, <1>6, Stutter

\* What is in progress changes only with the goroutine it belongs to.
LEMMA CallKept ==
  ASSUME ServiceInv, UNCHANGED mu,
         \A h \in Users : mu = h => pc'[h] = pc[h] /\ op'[h] = op[h]
  PROVE  Call' = Call /\ (Calling' <=> Calling)
BY DEF Call, Calling

LEMMA EffectiveKept ==
  ASSUME ServiceInv, UNCHANGED <<mu, live, resp>>,
         \A h \in Users : mu = h => /\ pc'[h] = pc[h] /\ op'[h] = op[h]
                                    /\ using'[h] = using[h]
  PROVE  Effective' <=> Effective
BY DEF Effective, Calling, Heard

LEMMA SeenKept ==
  ASSUME ServiceInv, UNCHANGED <<live, resp>>,
         pc'["sync"] = pc["sync"], op'["sync"] = op["sync"],
         using'["sync"] = using["sync"]
  PROVE  SeenUnlocked' <=> SeenUnlocked
BY DEF SeenUnlocked, Heard

Simulated == [Service!Next]_(Service!vars)

\* The steps of LockCommand, UnlockCommand and syncUnlock (controller.go).
LEMMA AgentSimulated ==
  ASSUME ServiceInv, NEW g \in Agents, AgentStep(g)
  PROVE  Simulated
<1>a. /\ pc \in [Agents -> Steps] /\ op \in [Agents -> Ops]
      /\ mu \in Agents \cup {"none"} /\ g \in Goroutines
      /\ Agents = Users \cup {"sync"} /\ "sync" \notin Users /\ "none" \notin Agents
      /\ \A h \in Agents : mu = h <=> pc[h] \in Holding
      /\ using \in [Goroutines -> 0..dials]
      /\ g \in Users => pc[g] \notin {"query", "status"} /\ op[g] # "SYNC"
      /\ pc["sync"] \notin {"request", "reply"} /\ op["sync"] \in {"none", "SYNC"}
  BY Facts
<1>1. CASE GetIn(g)
  <2>1. /\ mu = "none" /\ pc[g] = "enter" /\ op[g] # "none"
        /\ UNCHANGED <<kbd, locked, using, live, resp, crashes, timeouts>>
    BY <1>1, Facts DEF GetIn, NoOp, Enter, ipcVars, serverVars
  <2>2. ~Calling /\ Call = "none" /\ ~Effective
    BY <1>a, <2>1 DEF Calling, Call, Effective
  <2>3. CASE NoOp(g)
    <3>1. ~Calling' /\ Call' = "none" /\ ~Effective'
      BY <1>a, <2>1, <2>3 DEF NoOp, Calling, Call, Effective
    <3>2. CASE g = "sync"
      <4>1. ~SeenUnlocked'  BY <1>a, <2>3, <3>2 DEF NoOp, Done, SeenUnlocked
      <4>2. Service!Forget  BY <2>1, <2>2, <3>1, <4>1, Forgets
      <4>3. QED  BY <4>2 DEF Simulated, Service!Next
    <3>3. CASE g # "sync"
      <4>1. SeenUnlocked' <=> SeenUnlocked
        BY <1>a, <2>1, <2>3, <3>3, SeenKept DEF NoOp, Done
      <4>2. QED  BY <2>1, <2>2, <3>1, <4>1, Stutter DEF Simulated
    <3>4. QED  BY <3>2, <3>3
  <2>4. CASE Enter(g)
    <3>1. CASE g = "sync"
      <4>1. op["sync"] = "SYNC"  BY <1>a, <2>1, <3>1
      <4>2. /\ pc' = [pc EXCEPT !["sync"] = "commit"] /\ op' = op /\ mu' = "sync"
        BY <2>4, <3>1, <4>1 DEF Enter, At
      <4>3. SeenUnlocked /\ SeenUnlocked'
        BY <1>a, <2>1, <3>1, <4>1, <4>2 DEF SeenUnlocked
      <4>4. ~Calling' /\ Call' = "none" /\ ~Effective'
        BY <1>a, <4>2 DEF Calling, Call, Effective
      <4>5. QED  BY <2>1, <2>2, <4>3, <4>4, Stutter DEF Simulated
    <3>2. CASE g # "sync"
      <4>1. op[g] \in {"LOCK", "UNLOCK"}  BY <1>a, <2>1, <3>2 DEF Ops
      <4>2. /\ pc' = [pc EXCEPT ![g] = "request"] /\ op' = op /\ mu' = g
            /\ locked # (op[g] = "LOCK")
        BY <2>4, <4>1 DEF Enter, At, Wants
      <4>3. Call' = op[g] /\ ~Effective'
        BY <1>a, <3>2, <4>2 DEF Calling, Call, Effective
      <4>4. SeenUnlocked' <=> SeenUnlocked
        BY <1>a, <2>1, <3>2, <4>2, SeenKept
      <4>5. Service!Ask(op[g])  BY <2>1, <2>2, <4>2, <4>3, <4>4, Asks
      <4>6. QED  BY <4>1, <4>5 DEF Simulated, Service!Next
    <3>3. QED  BY <3>1, <3>2
  <2>5. QED  BY <1>1, <2>3, <2>4 DEF GetIn
<1>2. CASE Ask(g)
  <2>1. /\ pc[g] = "request" /\ mu = g /\ g \in Users
        /\ UNCHANGED <<kbd, locked, crashes, timeouts, live, resp>>
        /\ pc'["sync"] = pc["sync"] /\ op'["sync"] = op["sync"]
        /\ using'["sync"] = using["sync"]
    BY <1>a, <1>2, Facts
       DEF Ask, Request, At, GiveUp, Done, Send, Refused, ipcVars, serverVars, Holding
  <2>2. Calling /\ Call = op[g] /\ ~Effective /\ op[g] # "none"
    BY <1>a, <2>1, Facts DEF Calling, Call, Effective
  <2>3. SeenUnlocked' <=> SeenUnlocked  BY <2>1, SeenKept
  <2>4. CASE Send(g, client, op[g]) /\ At(g, "reply") /\ mu' = mu
    <3>1. Calling' /\ Call' = op[g]
      BY <1>a, <2>1, <2>4 DEF Calling, Call, At
    <3>2. CASE timeouts > 0
      <4>1. Service!Late  BY <2>1, <2>2, <3>1, <3>2, Facts, IsLate
      <4>2. QED  BY <4>1 DEF Simulated, Service!Next
    <3>3. CASE ~(timeouts > 0)
      <4>1. Waiting = {}
        BY <2>4, Facts DEF Send, Free, Connected, Waiting
      <4>2. resp = << >>
        BY <3>3, <4>1, Facts DEF ServiceInv, PipeInv, Channel, PipeDiscipline
      <4>3. ~Effective'  BY <1>a, <2>1, <2>4, <4>2 DEF Effective, Heard, At
      <4>4. QED  BY <2>1, <2>2, <2>3, <3>1, <4>3, Stutter DEF Simulated
    <3>4. QED  BY <3>2, <3>3
  <2>5. CASE Refused(client) /\ GiveUp(g)
    <3>1. ~Connected(client)  BY <2>5 DEF Refused
    <3>2. crashes > 0 \/ timeouts > 0
      BY <3>1, Facts DEF ServiceInv, Quiet, Connected
    <3>3. ~Calling' /\ Call' = "none" /\ ~Effective'
      BY <1>a, <2>5 DEF GiveUp, Calling, Call, Effective
    <3>4. Service!Fail  BY <2>1, <2>2, <2>3, <3>2, <3>3, Fails
    <3>5. QED  BY <3>4 DEF Simulated, Service!Next
  <2>6. QED  BY <1>2, <2>4, <2>5 DEF Ask, Request
<1>3. CASE Hear(g)
  <2>1. /\ pc[g] = "reply" /\ mu = g /\ g \in Users /\ using[g] # 0
        /\ UNCHANGED <<kbd, locked, crashes, live>>
        /\ pc'["sync"] = pc["sync"] /\ op'["sync"] = op["sync"]
        /\ \A h \in Goroutines \ {g} : using'[h] = using[h]
    BY <1>a, <1>3, Facts
       DEF Hear, Reply, At, GiveUp, Done, Answered, Failed, serverVars, Holding
  <2>2. Calling /\ Call = op[g] /\ op[g] # "none"
    BY <1>a, <2>1, Facts DEF Calling, Call
  <2>3. ASSUME NEW r \in Replies, Answered(g, r)
        PROVE  (SeenUnlocked' <=> SeenUnlocked) /\ timeouts' = timeouts
    <3>1. \A h \in Goroutines \ {g} : using[h] # live /\ using'[h] # live'
      BY <2>1, <2>3, Facts DEF Answered
    <3>2. "sync" \in Goroutines \ {g}  BY <1>a, <2>1, Facts
    <3>3. QED  BY <2>1, <2>3, <3>1, <3>2 DEF SeenUnlocked, Heard, Answered
  <2>4. ASSUME GiveUp(g)
        PROVE  ~Calling' /\ Call' = "none" /\ ~Effective'
    BY <1>a, <2>4 DEF GiveUp, Calling, Call, Effective
  <2>5. CASE Answered(g, "OK") /\ At(g, "commit") /\ mu' = mu
    <3>1. Effective  BY <2>1, <2>2, <2>5 DEF Effective, Heard, Answered
    <3>2. Calling' /\ Effective' /\ Call' = op[g]
      BY <1>a, <2>1, <2>5 DEF Calling, Effective, Call, At
    <3>3. QED
      BY <2>1, <2>2, <2>3, <2>5, <3>1, <3>2, Stutter DEF Simulated, Replies
  <2>6. ASSUME NEW r \in Replies \ {"OK"}, Answered(g, r), GiveUp(g)
        PROVE  Simulated
    <3>1. timeouts > 0
      <4>1. SUFFICES ASSUME timeouts = 0 PROVE FALSE  BY Facts
      <4>2. g \in Waiting  BY <1>a, <2>1, <2>6 DEF Waiting, Answered
      <4>3. \E a \in Fits(Asked(g)) : resp = <<a>>
        BY <2>6, <4>1, <4>2
           DEF ServiceInv, PipeInv, Channel, RepliesMatchRequests, Answered
      <4>4. Fits(Asked(g)) = {"OK"}
        BY <1>a, <2>1, Facts DEF Asked, Fits, Ops
      <4>5. QED  BY <2>6, <4>3, <4>4 DEF Answered
    <3>2. Service!Fail  BY <2>1, <2>2, <2>3, <2>4, <2>6, <3>1, Fails
    <3>3. QED  BY <3>2 DEF Simulated, Service!Next
  <2>7. CASE Failed(g) /\ GiveUp(g)
    <3>1. resp' = resp /\ (SeenUnlocked' <=> SeenUnlocked)
      <4>1. "sync" \in Goroutines \ {g}  BY <1>a, <2>1, Facts
      <4>2. QED  BY <2>1, <2>7, <4>1, SeenKept DEF Failed
    <3>2. CASE timeouts' = timeouts + 1
      <4>1. timeouts' > 0  BY <3>2, Facts
      <4>2. Service!Lose  BY <2>1, <2>4, <2>7, <3>1, <4>1, Loses
      <4>3. QED  BY <4>2 DEF Simulated, Service!Next
    <3>3. CASE using[g] # live /\ timeouts' = timeouts
      <4>1. crashes > 0 \/ timeouts > 0
        <5>1. SUFFICES ASSUME crashes = 0, timeouts = 0 PROVE FALSE  BY Facts
        <5>2. live = 1 /\ dials = 1  BY <5>1 DEF ServiceInv, Quiet
        <5>3. using[g] \in 0..1  BY <1>a, <5>2
        <5>4. QED  BY <2>1, <3>3, <5>2, <5>3
      <4>2. Service!Fail  BY <2>1, <2>2, <2>4, <2>7, <3>1, <3>3, <4>1, Fails
      <4>3. QED  BY <4>2 DEF Simulated, Service!Next
    <3>4. QED  BY <2>7, <3>2, <3>3 DEF Failed
  <2>8. QED  BY <1>3, <2>5, <2>6, <2>7 DEF Hear, Reply
<1>4. CASE Record(g)
  <2>1. /\ pc[g] = "commit" /\ mu = g /\ locked' = (op[g] = "LOCK") /\ mu' = mu
        /\ pc' = [pc EXCEPT ![g] = "desire"] /\ op' = op
        /\ UNCHANGED <<kbd, crashes, timeouts, using, live, resp>>
    BY <1>a, <1>4
       DEF Record, Commit, Wants, At, ipcVars, serverVars, Holding
  <2>2. ~Calling' /\ Call' = "none" /\ ~Effective'
    BY <1>a, <2>1 DEF Calling, Call, Effective
  <2>3. CASE g = "sync"
    <3>1. SeenUnlocked /\ ~SeenUnlocked' /\ ~Calling /\ locked' = FALSE
      BY <1>a, <2>1, <2>3, Facts DEF SeenUnlocked, Calling
    <3>2. Service!Correct  BY <2>1, <2>2, <3>1, Corrects
    <3>3. QED  BY <3>2 DEF Simulated, Service!Next
  <2>4. CASE g # "sync"
    <3>1. Effective /\ Call = op[g]
      BY <1>a, <2>1, <2>4 DEF Effective, Calling, Call
    <3>2. SeenUnlocked' <=> SeenUnlocked  BY <1>a, <2>1, <2>4, SeenKept
    <3>3. Service!Answer  BY <2>1, <2>2, <3>1, <3>2, Answers
    <3>4. QED  BY <3>3 DEF Simulated, Service!Next
  <2>5. QED  BY <2>3, <2>4
<1>5. CASE Tell(g) \/ Release(g)
  <2>1. /\ pc[g] \in {"desire", "finish"} /\ mu = g /\ mu' \in {g, "none"}
        /\ pc'[g] \in {"finish", "rest"} /\ \A h \in Agents \ {g} : pc'[h] = pc[h]
        /\ \A h \in Agents \ {g} : op'[h] = op[h]
        /\ UNCHANGED <<kbd, locked, crashes, timeouts, using, live, resp>>
    BY <1>a, <1>5
       DEF Tell, Desire, Release, Finish, At, Done, ipcVars, serverVars, Holding
  <2>2. /\ ~Calling /\ Call = "none" /\ ~Effective
        /\ ~Calling' /\ Call' = "none" /\ ~Effective'
    BY <1>a, <2>1 DEF Calling, Call, Effective
  <2>3. SeenUnlocked' <=> SeenUnlocked
    BY <1>a, <2>1 DEF SeenUnlocked, Heard
  <2>4. QED  BY <2>1, <2>2, <2>3, Stutter DEF Simulated
<1>6. QED  BY <1>1, <1>2, <1>3, <1>4, <1>5 DEF AgentStep

\* The poller's steps outside of c.mu (controller.go StartStateSync).
LEMMA PollerSimulated ==
  ASSUME ServiceInv, StartPoll \/ AskStatus \/ HearStatus
  PROVE  Simulated
<1>a. /\ pc \in [Agents -> Steps] /\ op \in [Agents -> Ops]
      /\ "sync" \in Agents /\ "sync" \in Goroutines /\ Users \subseteq Agents \ {"sync"}
      /\ pc["sync"] \in {"rest", "query", "status"} /\ mu # "sync"
      /\ using \in [Goroutines -> 0..dials] /\ Users \subseteq Goroutines \ {"sync"}
  BY Facts DEF StartPoll, Poll, AskStatus, Query, HearStatus, Status, Holding
<1>1. /\ UNCHANGED <<kbd, locked, mu, live, crashes>>
      /\ \A h \in Users : pc'[h] = pc[h] /\ op'[h] = op[h] /\ using'[h] = using[h]
  BY <1>a
     DEF StartPoll, Poll, AskStatus, Query, HearStatus, Status, Send, Refused,
         Answered, Failed, Begin, At, ipcVars, serverVars
<1>2. Call' = Call /\ (Calling' <=> Calling)  BY <1>1, CallKept
<1>3. ASSUME resp' = resp PROVE Effective' <=> Effective
  BY <1>1, <1>3, EffectiveKept
<1>4. CASE StartPoll
  <2>1. /\ UNCHANGED <<resp, timeouts>> /\ ~SeenUnlocked /\ ~SeenUnlocked'
    BY <1>a, <1>4 DEF StartPoll, Poll, At, SeenUnlocked, ipcVars
  <2>2. QED  BY <1>1, <1>2, <1>3, <2>1, Stutter DEF Simulated
<1>5. CASE AskStatus
  <2>1. pc["sync"] = "query" /\ UNCHANGED <<resp, timeouts>> /\ ~SeenUnlocked
    BY <1>a, <1>5
       DEF AskStatus, Query, Send, Refused, ipcVars, SeenUnlocked
  <2>2. CASE ~SeenUnlocked'
    BY <1>1, <1>2, <1>3, <2>1, <2>2, Stutter DEF Simulated
  <2>3. CASE SeenUnlocked'
    <3>1. Send("sync", polled, "STATUS") /\ resp # << >>
      BY <1>a, <1>5, <2>1, <2>3 DEF AskStatus, Query, At, SeenUnlocked, Heard
    <3>2. Waiting = {}  BY <3>1, Facts DEF Send, Free, Connected, Waiting
    <3>3. timeouts > 0
      BY <3>1, <3>2, Facts DEF ServiceInv, PipeInv, Channel, PipeDiscipline
    <3>4. Call = "none" => ~Effective'
      <4>1. op \in [Agents -> Ops] /\ \A h \in Users : pc[h] \in Holding => op[h] # "none"
        BY Facts DEF Holding
      <4>2. Calling => Call # "none"
        BY <4>1 DEF Calling, Call, Holding
      <4>3. QED  BY <1>2, <4>2 DEF Effective
    <3>5. Service!Late  BY <1>1, <1>2, <2>1, <3>3, <3>4, Facts, IsLate
    <3>6. QED  BY <3>5 DEF Simulated, Service!Next
  <2>4. QED  BY <2>2, <2>3
<1>6. CASE HearStatus
  <2>1. pc["sync"] = "status" /\ using["sync"] # 0 /\ op["sync"] = "none"
    BY <1>a, <1>6, Facts DEF HearStatus, Status
  <2>2. \A h \in Goroutines \ {"sync"} : using'[h] = using[h]
    BY <1>a, <1>6 DEF HearStatus, Status, Answered, Failed
  <2>3. ASSUME NEW r \in Replies, Answered("sync", r)
        PROVE  (Effective' <=> Effective) /\ timeouts' = timeouts
    <3>1. \A h \in Goroutines \ {"sync"} : using[h] # live /\ using'[h] # live'
      BY <1>1, <2>1, <2>2, <2>3, Facts DEF Answered
    <3>2. QED  BY <1>a, <1>1, <2>3, <3>1 DEF Effective, Calling, Heard, Answered
  <2>4. CASE Answered("sync", "UNLOCKED") /\ Begin("sync", "SYNC")
    <3>1. SeenUnlocked
      BY <2>1, <2>4 DEF SeenUnlocked, Heard, Answered
    <3>2. SeenUnlocked'  BY <1>a, <2>4 DEF SeenUnlocked, Begin
    <3>3. QED  BY <1>1, <1>2, <2>3, <2>4, <3>1, <3>2, Stutter DEF Simulated, Replies
  <2>5. ASSUME At("sync", "rest") PROVE ~SeenUnlocked'
    BY <1>a, <2>5 DEF SeenUnlocked, At
  <2>6. ASSUME NEW r \in Replies, Answered("sync", r), At("sync", "rest")
        PROVE  Simulated
    <3>1. Service!Forget  BY <1>1, <1>2, <2>3, <2>5, <2>6, Forgets
    <3>2. QED  BY <3>1 DEF Simulated, Service!Next
  <2>7. CASE Failed("sync") /\ At("sync", "rest")
    <3>1. resp' = resp  BY <2>7 DEF Failed
    <3>2. CASE timeouts' = timeouts + 1
      <4>1. timeouts' > 0  BY <3>2, Facts
      <4>2. Service!Lose  BY <1>1, <1>2, <1>3, <2>5, <2>7, <3>1, <4>1, Loses
      <4>3. QED  BY <4>2 DEF Simulated, Service!Next
    <3>3. CASE timeouts' = timeouts
      <4>1. Service!Forget
        BY <1>1, <1>2, <1>3, <2>5, <2>7, <3>1, <3>3, Forgets
      <4>2. QED  BY <4>1 DEF Simulated, Service!Next
    <3>4. QED  BY <2>7, <3>2, <3>3 DEF Failed
  <2>8. QED  BY <1>6, <2>4, <2>6, <2>7 DEF HearStatus, Status
<1>7. QED  BY <1>4, <1>5, <1>6

\* The watchdog's steps (manager.go): whatever it does to the keyboard, it does
\* by requests that the sentinel serves.
LEMMA DogSimulated ==
  ASSUME ServiceInv, DogStep
  PROVE  Simulated
<1>a. /\ Users \subseteq Goroutines \ {"dog"} /\ "sync" \in Goroutines \ {"dog"}
      /\ "dog" \in Goroutines
      /\ using \in [Goroutines -> 0..dials] /\ dials \in Nat
  BY Facts
<1>1. UNCHANGED <<kbd, locked, mu, pc, op, crashes>>
  BY DEF DogStep, Tick, DogTick, DogAdopt, SetClient, DogWorks, DogPing, DogPong,
         DogClose, DogLaunch, DogLaunchFails, DogDial, DogDialFails, DogRestore,
         DogRelock, DogRelocked, DogCombo, DogConfirm, DogSends, DogHears, Launch,
         serverVars, controllerVars
<1>2. Call' = Call /\ (Calling' <=> Calling)  BY <1>1, CallKept
<1>3. ASSUME UNCHANGED <<live, resp, timeouts>>,
             \A h \in Goroutines \ {"dog"} : using'[h] = using[h]
      PROVE  Simulated
  <2>1. Effective' <=> Effective  BY <1>a, <1>1, <1>3, EffectiveKept
  <2>2. SeenUnlocked' <=> SeenUnlocked  BY <1>a, <1>1, <1>3, SeenKept
  <2>3. QED  BY <1>1, <1>2, <1>3, <2>1, <2>2, Stutter DEF Simulated
<1>4. ASSUME NEW c, NEW s, NEW r, DogSends(c, s, r) PROVE Simulated
  BY <1>a, <1>3, <1>4 DEF DogSends, Send, Refused, ipcVars
<1>5. ASSUME using["dog"] # 0, Failed("dog") \/ \E r \in Replies : Answered("dog", r)
      PROVE  Simulated
  <2>1. CASE \E r \in Replies : Answered("dog", r)
    <3>1. /\ using["dog"] = live /\ UNCHANGED <<live, timeouts>>
          /\ \A h \in Goroutines \ {"dog"} : using'[h] = using[h]
      BY <1>a, <2>1 DEF Answered
    <3>2. \A h \in Goroutines \ {"dog"} : using[h] # live /\ using'[h] # live'
      BY <1>a, <1>5, <3>1, Facts
    <3>3. (Effective' <=> Effective) /\ (SeenUnlocked' <=> SeenUnlocked)
      BY <1>a, <1>1, <3>2 DEF Effective, Calling, SeenUnlocked, Heard
    <3>4. QED  BY <1>1, <1>2, <3>1, <3>3, Stutter DEF Simulated
  <2>2. CASE Failed("dog")
    <3>1. /\ UNCHANGED <<live, resp>>
          /\ \A h \in Goroutines \ {"dog"} : using'[h] = using[h]
      BY <1>a, <2>2 DEF Failed
    <3>2. CASE timeouts' = timeouts
      BY <1>3, <3>1, <3>2
    <3>3. CASE timeouts' = timeouts + 1
      <4>1. timeouts' > 0  BY <3>3, Facts
      <4>2. Effective' <=> Effective  BY <1>a, <1>1, <3>1, EffectiveKept
      <4>3. SeenUnlocked' <=> SeenUnlocked  BY <1>a, <1>1, <3>1, SeenKept
      <4>4. Service!Lose  BY <1>1, <1>2, <4>1, <4>2, <4>3, Loses
      <4>5. QED  BY <4>4 DEF Simulated, Service!Next
    <3>4. QED  BY <2>2, <3>2, <3>3 DEF Failed
  <2>3. QED  BY <1>5, <2>1, <2>2
<1>6. dog \in {"pong", "relocked", "confirm"} => using["dog"] # 0
  BY DEF ServiceInv, PipeInv, SendersKnown
<1>7. CASE DogPing \/ DogRelock \/ DogCombo
  BY <1>4, <1>7 DEF DogPing, DogRelock, DogCombo
<1>8. CASE DogPong \/ DogRelocked \/ DogConfirm
  <2>1. using["dog"] # 0  BY <1>6, <1>8 DEF DogPong, DogRelocked, DogConfirm, DogHears
  <2>2. Failed("dog") \/ \E r \in Replies : Answered("dog", r)
    BY <1>8 DEF DogPong, DogRelocked, DogConfirm, DogHears
  <2>3. QED  BY <1>5, <2>1, <2>2
<1>9. CASE Tick \/ DogAdopt \/ DogLaunch \/ DogLaunchFails \/ DogDialFails
           \/ DogRestore \/ DogClose
  BY <1>3, <1>9
     DEF Tick, DogTick, DogAdopt, DogLaunch, Launch, DogLaunchFails, DogDialFails,
         DogRestore, DogClose, Close, ipcVars
<1>10. CASE DogDial
  <2>1. /\ live = 0 /\ live' = dials + 1
        /\ UNCHANGED <<resp, using, timeouts>>
    BY <1>10 DEF DogDial, Dial
  <2>2. \A h \in Goroutines : using[h] # live'  BY <1>a, <2>1
  <2>3. resp = << >>
    BY <2>1 DEF ServiceInv, PipeInv, Channel, PipeDiscipline
  <2>4. (Effective' <=> Effective) /\ (SeenUnlocked' <=> SeenUnlocked)
    BY <1>a, <1>1, <2>1, <2>3 DEF Effective, Calling, SeenUnlocked, Heard
  <2>5. QED  BY <1>1, <1>2, <2>1, <2>4, Stutter DEF Simulated
<1>11. QED  BY <1>7, <1>8, <1>9, <1>10 DEF DogStep, DogWorks

\* The sentinel serves requests (pipe.cpp), unlocks itself, or dies.
LEMMA SentinelSimulated ==
  ASSUME ServiceInv, SentinelWorks \/ SentinelFate
  PROVE  Simulated
<1>a. /\ Users \subseteq Goroutines /\ "sync" \in Goroutines /\ "sync" \notin Users
      /\ "dog" \notin Users /\ Goroutines = Users \cup {"sync", "dog"}
      /\ \A g \in Users : mu = g <=> pc[g] \in Holding
      /\ \A g \in Users : using[g] # 0 <=> pc[g] = "reply"
      /\ using["sync"] # 0 <=> pc["sync"] = "status"
      /\ \A g \in Users : pc[g] \in Holding => op[g] \in {"LOCK", "UNLOCK"}
      /\ crashes \in Nat /\ timeouts \in Nat /\ kbd \in BOOLEAN
  <2>1. \A g \in Users : op[g] \in {"none", "LOCK", "UNLOCK"}
    BY Facts DEF Ops
  <2>2. QED  BY <2>1, Facts DEF Holding
<1>1. UNCHANGED <<locked, mu, pc, op, using, timeouts>>
  BY DEF SentinelWorks, SentinelFate, Serve, SeesHangup, SelfUnlock, Crash, ipcVars,
         controllerVars
<1>2. Call' = Call /\ (Calling' <=> Calling)  BY <1>1, CallKept
<1>3. CASE SelfUnlock
  <2>1. UNCHANGED <<live, resp, crashes>> /\ kbd /\ kbd' = FALSE
    BY <1>3 DEF SelfUnlock, ipcVars
  <2>2. Effective' <=> Effective  BY <1>1, <2>1, EffectiveKept
  <2>3. SeenUnlocked' <=> SeenUnlocked  BY <1>1, <2>1, SeenKept
  <2>4. Service!SelfUnlock  BY <1>1, <1>2, <2>1, <2>2, <2>3, Unlocks
  <2>5. QED  BY <2>4 DEF Simulated, Service!Next
<1>4. CASE Crash
  <2>1. /\ crashes' > 0 /\ kbd' = FALSE /\ resp' = << >>
    BY <1>a, <1>4 DEF Crash
  <2>2. Effective' => Effective
    BY <1>1, <1>2, <2>1 DEF Effective, Heard
  <2>3. SeenUnlocked' => SeenUnlocked
    BY <1>1, <2>1 DEF SeenUnlocked, Heard
  <2>4. Service!Crash  BY <1>1, <1>2, <2>1, <2>2, <2>3, Crashes
  <2>5. QED  BY <2>4 DEF Simulated, Service!Next
<1>5. CASE SeesHangup
  <2>1. UNCHANGED <<kbd, crashes>> /\ hungup /\ live # 0 /\ resp' = << >>
    BY <1>5 DEF SeesHangup, serverVars
  <2>2. \A g \in Goroutines : ~(using[g] # 0 /\ using[g] = live)
    BY <2>1 DEF ServiceInv, PipeInv, Channel, PipeDiscipline, Waiting
  <2>3. \A g \in Goroutines : using[g] # live  BY <2>1, <2>2
  <2>4. (Effective' <=> Effective) /\ (SeenUnlocked' <=> SeenUnlocked)
    BY <1>a, <1>1, <2>1, <2>3 DEF Effective, Calling, SeenUnlocked, Heard
  <2>5. QED  BY <1>1, <1>2, <2>1, <2>4, Stutter DEF Simulated
<1>6. CASE Serve
  <2>1. /\ live # 0 /\ req # << >> /\ kbd' = LockAfter(Head(req))
        /\ resp' = IF hungup THEN resp ELSE Append(resp, ReplyTo(Head(req)))
        /\ UNCHANGED <<live, hungup, crashes>>
    BY <1>6 DEF Serve
  <2>2. CASE timeouts > 0
    <3>1. kbd' \in BOOLEAN  BY <1>a, <2>1 DEF LockAfter
    <3>2. Call = "none" => ~Effective'
      <4>1. Calling => Call # "none"  BY <1>a DEF Calling, Call, Holding
      <4>2. QED  BY <1>2, <4>1 DEF Effective
    <3>3. Service!Late  BY <1>1, <1>2, <2>1, <2>2, <3>1, <3>2, IsLate
    <3>4. QED  BY <3>3 DEF Simulated, Service!Next
  <2>3. CASE ~(timeouts > 0)
    <3>1. timeouts = 0  BY <1>a, <2>3
    <3>2. PICK w \in Waiting : TRUE
      BY <2>1, <3>1 DEF ServiceInv, PipeInv, Channel, PipeDiscipline
    <3>3. req = <<Asked(w)>> /\ resp = << >>
      BY <2>1, <3>1, <3>2 DEF ServiceInv, PipeInv, Channel, RepliesMatchRequests
    <3>4. ~hungup
      BY <3>2 DEF ServiceInv, PipeInv, Channel, PipeDiscipline
    <3>5. resp' = <<ReplyTo(Asked(w))>> /\ kbd' = LockAfter(Asked(w))
      BY <2>1, <3>3, <3>4
    <3>6. /\ w \in Goroutines /\ using[w] # 0 /\ using[w] = live
          /\ \A h \in Goroutines \ {w} : using[h] # live
      BY <3>2, Facts DEF Waiting
    <3>7. ~Heard(mu, "OK") /\ ~Heard("sync", "UNLOCKED")
      BY <3>3 DEF Heard
    <3>8. CASE w \in Users
      <4>1. /\ pc[w] = "reply" /\ mu = w /\ Asked(w) = op[w]
            /\ op[w] \in {"LOCK", "UNLOCK"}
        BY <1>a, <3>6, <3>8 DEF Asked, Holding
      <4>2. resp' = <<"OK">> /\ kbd' = (op[w] = "LOCK")
        BY <3>5, <4>1 DEF ReplyTo, LockAfter
      <4>3. Call = op[w] /\ ~Effective /\ Effective' /\ Call # "none"
        BY <1>1, <2>1, <3>6, <3>7, <3>8, <4>1, <4>2
           DEF Call, Calling, Effective, Heard
      <4>4. SeenUnlocked' <=> SeenUnlocked
        <5>1. w # "sync" /\ "sync" \in Goroutines  BY <1>a, <3>8
        <5>2. using["sync"] # live /\ using'["sync"] # live'
          BY <1>1, <2>1, <3>6, <5>1
        <5>3. QED  BY <1>1, <5>2 DEF SeenUnlocked, Heard
      <4>5. Service!Act  BY <1>1, <1>2, <2>1, <4>2, <4>3, <4>4, Acts
      <4>6. QED  BY <4>5 DEF Simulated, Service!Next
    <3>9. CASE w \notin Users
      <4>1. \A h \in Users : using[h] # live /\ using'[h] # live'
        BY <1>a, <1>1, <2>1, <3>6, <3>9
      <4>2. Effective' <=> Effective
        BY <1>1, <4>1 DEF Effective, Calling, Heard
      <4>3. CASE w = "sync"
        <5>1. pc["sync"] = "status" /\ Asked(w) = "STATUS"
          BY <1>a, <3>6, <4>3 DEF Asked
        <5>2. resp' = <<IF kbd THEN "LOCKED" ELSE "UNLOCKED">> /\ kbd' = kbd
          BY <3>5, <5>1 DEF ReplyTo, LockAfter
        <5>3. ~SeenUnlocked  BY <3>7, <5>1 DEF SeenUnlocked
        <5>4. CASE kbd
          <6>1. ~SeenUnlocked'
            BY <1>1, <5>1, <5>2, <5>4 DEF SeenUnlocked, Heard
          <6>2. QED
            BY <1>1, <1>2, <2>1, <4>2, <5>2, <5>3, <6>1, Stutter DEF Simulated
        <5>5. CASE ~kbd
          <6>1. SeenUnlocked'
            BY <1>1, <2>1, <3>6, <4>3, <5>1, <5>2, <5>5 DEF SeenUnlocked, Heard
          <6>2. Service!See
            BY <1>1, <1>2, <2>1, <4>2, <5>2, <5>5, <6>1, Sees
          <6>3. QED  BY <6>2 DEF Simulated, Service!Next
        <5>6. QED  BY <5>4, <5>5
      <4>4. CASE w = "dog"
        <5>1. SeenUnlocked' <=> SeenUnlocked
          <6>1. "sync" \in Goroutines /\ w # "sync"  BY <1>a, <4>4
          <6>2. using["sync"] # live /\ using'["sync"] # live'
            BY <1>1, <2>1, <3>6, <6>1
          <6>3. QED  BY <1>1, <6>2 DEF SeenUnlocked, Heard
        <5>2. dog \in {"pong", "relocked", "confirm"}
          BY <3>6, <4>4 DEF ServiceInv, PipeInv, SendersKnown
        <5>3. Asked(w) = CASE dog = "pong"     -> "PING"
                           [] dog = "relocked" -> "LOCK"
                           [] OTHER            -> "SET_COMBO"
          BY <1>a, <4>4 DEF Asked
        <5>4. CASE dog = "relocked"
          <6>1. kbd' = TRUE  BY <3>5, <5>3, <5>4 DEF LockAfter
          <6>2. crashes > 0 \/ timeouts > 0
            BY <1>a, <5>4 DEF ServiceInv, Quiet
          <6>3. Service!Restore
            BY <1>1, <1>2, <2>1, <4>2, <5>1, <6>1, <6>2, Restores
          <6>4. QED  BY <6>3 DEF Simulated, Service!Next
        <5>5. CASE dog # "relocked"
          <6>1. kbd' = kbd
            <7>1. Asked(w) \in {"PING", "SET_COMBO"}  BY <5>2, <5>3, <5>5
            <7>2. QED  BY <3>5, <7>1 DEF LockAfter
          <6>2. QED
            BY <1>1, <1>2, <2>1, <4>2, <5>1, <6>1, Stutter DEF Simulated
        <5>6. QED  BY <5>4, <5>5
      <4>5. QED  BY <1>a, <3>6, <3>9, <4>3, <4>4
    <3>10. QED  BY <3>8, <3>9
  <2>4. QED  BY <2>2, <2>3
<1>7. QED  BY <1>3, <1>4, <1>5, <1>6 DEF SentinelWorks, SentinelFate

\* A command arrives, or the idle timer fires.
LEMMA ArrivalSimulated ==
  ASSUME ServiceInv, Arrive \/ TimerFires
  PROVE  UNCHANGED Service!vars
<1>1. PICK g \in Users, o \in Ops :
        /\ pc[g] = "rest" /\ Begin(g, o)
        /\ UNCHANGED <<kbd, locked, mu, using, live, resp, crashes, timeouts>>
  <2>1. CASE Arrive
    BY <2>1 DEF Arrive, Click, HandleHotkey, Command, Users, Ops, ipcVars, serverVars
  <2>2. CASE TimerFires
    BY <2>2 DEF TimerFires, IdleFires, Users, Ops, ipcVars, serverVars
  <2>3. QED  BY <2>1, <2>2
<1>2. g \in Agents /\ g # "sync"  BY Facts
<1>3. pc'[g] = "enter"  BY <1>1, <1>2, Facts DEF Begin
<1>4. ~At(g, "rest")  BY <1>2, <1>3, Facts DEF At
<1>5. QED  BY <1>1, <1>2, <1>4, OutsideStep

LEMMA ServiceStep ==
  ASSUME ServiceInv, [Next]_vars
  PROVE  Simulated /\ ServiceInv'
<1>1. SUFFICES Simulated
  BY PipeInvStep, QuietStep DEF ServiceInv
<1>2. CASE Arrive \/ TimerFires
  BY <1>2, ArrivalSimulated DEF Simulated
<1>3. CASE SyncStep
  BY <1>3, PollerSimulated, AgentSimulated DEF SyncStep, Agents
<1>4. ASSUME NEW g \in Users, AgentStep(g) PROVE Simulated
  BY <1>4, AgentSimulated DEF Agents
<1>5. CASE DogStep
  BY <1>5, DogSimulated
<1>6. CASE SentinelWorks \/ SentinelFate
  BY <1>6, SentinelSimulated
<1>7. CASE TrayReady \/ UNCHANGED vars
  <2>1. UNCHANGED <<kbd, locked, mu, pc, op, using, live, resp, crashes, timeouts>>
    BY <1>7 DEF TrayReady, OnReady, vars, ipcVars, serverVars, controllerVars
  <2>2. /\ Call' = Call /\ (Effective' <=> Effective)
        /\ (SeenUnlocked' <=> SeenUnlocked)
    BY <2>1 DEF Call, Calling, Effective, SeenUnlocked, Heard
  <2>3. QED  BY <2>1, <2>2, Stutter DEF Simulated
<1>8. QED  BY <1>2, <1>3, <1>4, <1>5, <1>6, <1>7 DEF Next

LEMMA ServiceInit == Init => Service!Init
<1>1. SUFFICES ASSUME Init PROVE Service!Init  OBVIOUS
<1>2. /\ mu = "none" /\ locked = FALSE /\ crashes = 0
      /\ pc = [g \in Agents |-> "rest"] /\ op = [g \in Agents |-> "none"]
      /\ kbd \in BOOLEAN
  BY <1>1 DEF Init, IpcInit, ControllerInit
<1>3. "sync" \in Agents /\ "none" \notin Users
  BY CallersAssumption DEF Agents, Users
<1>4. ~Calling  BY <1>2, <1>3 DEF Calling
<1>5. ~Effective  BY <1>4 DEF Effective
<1>6. ~SeenUnlocked  BY <1>2, <1>3 DEF SeenUnlocked
<1>7. Effective = FALSE /\ SeenUnlocked = FALSE
  BY <1>5, <1>6, MappedTyped, Untrue
<1>8. (IF Calling THEN op[mu] ELSE "none") = "none"  BY <1>4
<1>9. (crashes > 0) = FALSE /\ (timeouts > 0) \in BOOLEAN  BY <1>2
<1>10. QED  BY <1>2, <1>7, <1>8, <1>9, Zenon DEF Service!Init

\* The program implements LockService, for every set of control connections and
\* every number of crashes and timeouts: a command acts and is recorded apart
\* from every other, fails only after a fault, and the record is corrected only
\* after the keyboard was found unlocked (controller.go, client.go, manager.go).
THEOREM ProgramImplementsService == Spec => ImplementsLockService
<1>1. Init => ServiceInv  BY PipeInvInit, QuietInit DEF ServiceInv
<1>2. ServiceInv /\ [Next]_vars => Simulated /\ ServiceInv'  BY ServiceStep
<1>3. QED
  BY <1>1, <1>2, ServiceInit, PTL DEF Spec, ImplementsLockService, Service!Spec, Simulated
=============================================================================
