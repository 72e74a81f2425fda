---------------------------- MODULE Controller ----------------------------
(***************************************************************************)
(* controller.Controller, the idle timer and the tray menu it drives:      *)
(* LockCommand, UnlockCommand and syncUnlock run under c.mu, the state     *)
(* poller asks the sentinel for its state outside of it                    *)
(* (internal/controller, internal/safety/idletimeout.go, internal/tray).   *)
(***************************************************************************)
EXTENDS Manager

CONSTANT Hotkey   \* lock_hotkey: "off", "lock", or "toggle" (it also unlocks)

ASSUME HotkeyAssumption == Hotkey \in {"off", "lock", "toggle"}

VARIABLES
  mu,       \* the goroutine that holds c.mu across steps, "none" if free
  pc,       \* where each goroutine is in the command it runs
  op,       \* that command: "SYNC" is syncUnlock, "none" at rest
  locked,   \* c.locked
  client,   \* c.client
  polled,   \* the client the poller read under c.mu
  timer,    \* the idle timer: "off", "armed", or "fired" and not stopped since
  shown,    \* the tray menu offers Unlock rather than Lock
  ready,    \* the tray menu exists (activeTray is set)
  missed    \* history: the last SetState came before the menu, and was lost on it

trayVars == <<shown, ready, missed>>

controllerVars == <<mu, pc, op, locked, client, polled, timer, trayVars>>

Steps == {"rest", "enter", "request", "reply", "commit", "desire", "finish",
          "query", "status"}
Ops   == {"none", "LOCK", "UNLOCK", "SYNC"}

-----------------------------------------------------------------------------

\* The value of c.locked that the command of g establishes.
Wants(g) == op[g] = "LOCK"

Begin(g, o) ==
  /\ pc' = [pc EXCEPT ![g] = "enter"]
  /\ op' = [op EXCEPT ![g] = o]

At(g, step) == pc' = [pc EXCEPT ![g] = step] /\ UNCHANGED op

Done(g) ==
  /\ pc' = [pc EXCEPT ![g] = "rest"]
  /\ op' = [op EXCEPT ![g] = "none"]

\* A command arrives on a connection of the control pipe.
Command(g, o) ==
  /\ pc[g] = "rest"
  /\ Begin(g, o)
  /\ UNCHANGED <<mu, locked, client, polled, timer, trayVars>>

\* A click on the menu item that is enabled; clicks are handled one at a time.
Click ==
  /\ ready /\ pc["tray"] = "rest"
  /\ Begin("tray", IF shown THEN "UNLOCK" ELSE "LOCK")
  /\ UNCHANGED <<mu, locked, client, polled, timer, trayVars>>

\* HandleHotkey reads c.locked under c.mu and decides after releasing it.
HandleHotkey ==
  /\ Hotkey # "off" /\ pc["hotkey"] = "rest"
  /\ mu = "none"
  /\ locked => Hotkey = "toggle"
  /\ Begin("hotkey", IF locked THEN "UNLOCK" ELSE "LOCK")
  /\ UNCHANGED <<mu, locked, client, polled, timer, trayVars>>

\* The idle timer expires and its callback starts.
IdleFires ==
  /\ timer = "armed" /\ pc["idler"] = "rest"
  /\ timer' = "fired"
  /\ Begin("idler", "UNLOCK")
  /\ UNCHANGED <<mu, locked, client, polled, trayVars>>

\* The state asked for is the state recorded: the command returns nil.
NoOp(g) ==
  /\ pc[g] = "enter" /\ mu = "none"
  /\ locked = Wants(g)
  /\ Done(g)
  /\ UNCHANGED <<mu, locked, client, polled, timer, trayVars>>

\* Take c.mu.  syncUnlock does not ask the sentinel.
Enter(g) ==
  /\ pc[g] = "enter" /\ mu = "none"
  /\ locked # Wants(g)
  /\ mu' = g
  /\ At(g, IF op[g] = "SYNC" THEN "commit" ELSE "request")
  /\ UNCHANGED <<locked, client, polled, timer, trayVars>>

\* A mistake of GiveUp: the error path leaves c.mu locked.
GiveUpKeepsMutex(g) ==
  /\ Done(g)
  /\ UNCHANGED <<mu, locked, client, polled, timer, trayVars>>

\* The sentinel refused or did not answer: the command returns the error.
GiveUp(g) ==
  /\ mu' = "none"
  /\ Done(g)
  /\ UNCHANGED <<locked, client, polled, timer, trayVars>>

\* client.Lock or client.Unlock, under c.mu.
Request(g) ==
  /\ pc[g] = "request"
  /\ \/ /\ Send(g, client, op[g])
        /\ At(g, "reply")
        /\ UNCHANGED <<mu, locked, client, polled, timer, trayVars>>
     \/ Refused(client) /\ GiveUp(g)

\* A mistake of Reply: the error of client.Lock is logged and nothing else.
ReplyLogsError(g) ==
  /\ pc[g] = "reply"
  /\ Failed(g) \/ \E r \in Replies : Answered(g, r)
  /\ At(g, "commit")
  /\ UNCHANGED <<mu, locked, client, polled, timer, trayVars>>

Reply(g) ==
  /\ pc[g] = "reply"
  /\ \/ /\ Answered(g, "OK")
        /\ At(g, "commit")
        /\ UNCHANGED <<mu, locked, client, polled, timer, trayVars>>
     \/ /\ Failed(g) \/ \E r \in Replies \ {"OK"} : Answered(g, r)
        /\ GiveUp(g)

Commit(g) ==
  /\ pc[g] = "commit"
  /\ locked' = Wants(g)
  /\ At(g, "desire")
  /\ UNCHANGED <<mu, client, polled, timer, trayVars>>

\* A mistake of Desire: syncUnlock does not tell the manager.
DesireNotOfSync(g) ==
  /\ pc[g] = "desire"
  /\ IF op[g] = "SYNC" THEN UNCHANGED managerVars ELSE SetDesiredLock(Wants(g))
  /\ At(g, "finish")
  /\ UNCHANGED <<mu, locked, client, polled, timer, trayVars>>

\* SetDesiredLock, which may have to wait for m.mu.
Desire(g) ==
  /\ pc[g] = "desire"
  /\ SetDesiredLock(Wants(g))
  /\ At(g, "finish")
  /\ UNCHANGED <<mu, locked, client, polled, timer, trayVars>>

\* Mistakes of Finish: syncUnlock does not tell the tray; an unlock leaves the
\* idle timer as it is; a lock does not start a timer that has been started before.
FinishNotOfSync(g) ==
  /\ pc[g] = "finish"
  /\ shown' = (IF ready /\ op[g] # "SYNC" THEN locked ELSE shown)
  /\ missed' = ~ready
  /\ timer' = (IF locked THEN "armed" ELSE "off")
  /\ mu' = "none"
  /\ Done(g)
  /\ UNCHANGED <<locked, client, polled, ready>>

FinishKeepsTimer(g) ==
  /\ pc[g] = "finish"
  /\ shown' = (IF ready THEN locked ELSE shown)
  /\ missed' = ~ready
  /\ timer' = (IF locked THEN "armed" ELSE timer)
  /\ mu' = "none"
  /\ Done(g)
  /\ UNCHANGED <<locked, client, polled, ready>>

FinishStartsOnce(g) ==
  /\ pc[g] = "finish"
  /\ shown' = (IF ready THEN locked ELSE shown)
  /\ missed' = ~ready
  /\ timer' = (IF locked /\ timer = "off" THEN "armed" ELSE timer)
  /\ mu' = "none"
  /\ Done(g)
  /\ UNCHANGED <<locked, client, polled, ready>>

\* setTrayState and idleTimeout.Start or Stop; then c.mu is released.
Finish(g) ==
  /\ pc[g] = "finish"
  /\ shown' = (IF ready THEN locked ELSE shown)
  /\ missed' = ~ready
  /\ timer' = (IF locked THEN "armed" ELSE "off")
  /\ mu' = "none"
  /\ Done(g)
  /\ UNCHANGED <<locked, client, polled, ready>>

\* The state poller: what to ask is decided under c.mu ...
Poll ==
  /\ pc["sync"] = "rest" /\ mu = "none" /\ locked
  /\ polled' = client
  /\ At("sync", "query")
  /\ UNCHANGED <<mu, locked, client, timer, trayVars>>

\* ... the question is asked outside of it ...
Query ==
  /\ pc["sync"] = "query"
  /\ \/ Send("sync", polled, "STATUS") /\ At("sync", "status")
     \/ Refused(polled) /\ At("sync", "rest")
  /\ UNCHANGED <<mu, locked, client, polled, timer, trayVars>>

\* A mistake of Status: the answer is not acted on.
StatusIgnored ==
  /\ pc["sync"] = "status"
  /\ Failed("sync") \/ \E r \in Replies : Answered("sync", r)
  /\ At("sync", "rest")
  /\ UNCHANGED <<mu, locked, client, polled, timer, trayVars>>

\* ... and so the answer may be old when syncUnlock acts on it.
Status ==
  /\ pc["sync"] = "status"
  /\ \/ Answered("sync", "UNLOCKED") /\ Begin("sync", "SYNC")
     \/ /\ Failed("sync") \/ \E r \in Replies \ {"UNLOCKED"} : Answered("sync", r)
        /\ At("sync", "rest")
  /\ UNCHANGED <<mu, locked, client, polled, timer, trayVars>>

\* Mistakes of SetClient: the old client stays, or none is left.
SetClientKeeps(c) ==
  /\ mu = "none"
  /\ UNCHANGED controllerVars

SetClientNil(c) ==
  /\ mu = "none"
  /\ client' = 0
  /\ UNCHANGED <<mu, pc, op, locked, polled, timer, trayVars>>

\* SetClient, called by the watchdog with the client of the new sentinel.
SetClient(c) ==
  /\ mu = "none"
  /\ client' = c
  /\ UNCHANGED <<mu, pc, op, locked, polled, timer, trayVars>>

\* The tray's event loop has created the menu, with Unlock disabled.
OnReady ==
  /\ ~ready
  /\ ready' = TRUE
  /\ UNCHANGED <<mu, pc, op, locked, client, polled, timer, shown, missed>>

ControllerTypeOK ==
  /\ mu \in Agents \cup {"none"}
  /\ pc \in [Agents -> Steps]
  /\ op \in [Agents -> Ops]
  /\ locked \in BOOLEAN
  /\ client \in 1..dials /\ polled \in 1..dials
  /\ timer \in {"off", "armed", "fired"}
  /\ shown \in BOOLEAN /\ ready \in BOOLEAN /\ missed \in BOOLEAN

ControllerInit ==
  /\ mu = "none"
  /\ pc = [g \in Agents |-> "rest"]
  /\ op = [g \in Agents |-> "none"]
  /\ locked = FALSE
  /\ client = 1 /\ polled = 1
  /\ timer = "off"
  /\ shown = FALSE /\ missed = FALSE
=============================================================================
