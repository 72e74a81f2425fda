------------------------------ MODULE Manager ------------------------------
(***************************************************************************)
(* sentinel.Manager: the watchdog goroutine that pings the sentinel and,   *)
(* when a ping fails, replaces it and restores the desired lock state      *)
(* (internal/sentinel/manager.go).                                         *)
(***************************************************************************)
EXTENDS PipeServer

CONSTANT MaxFailures   \* bound: launches and dials that may fail unprovoked

ASSUME FailuresAssumption == MaxFailures \in Nat

VARIABLES
  dog,        \* where the watchdog goroutine is
  mClient,    \* m.client, 0 when nil
  desired,    \* m.locked: the state to restore after a restart
  failures    \* number of unprovoked failures so far

managerVars == <<dog, mClient, desired, failures>>

DogSteps == {"rest", "ping", "pong", "close", "start", "dial", "restore",
             "relock", "relocked", "adopt", "combo", "confirm"}

-----------------------------------------------------------------------------

\* A mistake of ManagerFree: restart keeps m.mu, which it takes to read m.locked,
\* until onRestart has returned.
ManagerFreeLate ==
  dog \notin {"close", "restore", "relock", "relocked", "adopt", "combo", "confirm"}

\* m.mu is held across steps only while restart waits to close the client.
ManagerFree == dog # "close"

\* SetDesiredLock, called by the controller.
SetDesiredLock(b) ==
  /\ ManagerFree
  /\ desired' = b
  /\ UNCHANGED <<dog, mClient, failures>>

GoTo(step) == dog' = step /\ UNCHANGED <<desired, failures>>

\* The ticker fires.  A nil client is skipped, now and at every later tick.
DogTick ==
  /\ dog = "rest" /\ mClient # 0
  /\ GoTo("ping")
  /\ UNCHANGED <<mClient, ipcVars, serverVars>>

\* The watchdog sends cmd to its client and goes on to sent, or, when the write
\* fails, to refused.
DogSends(cmd, sent, refused) ==
  /\ \/ Send("dog", mClient, cmd) /\ GoTo(sent)
     \/ Refused(mClient) /\ GoTo(refused)
  /\ UNCHANGED <<mClient, serverVars>>

\* A mistake of DogPing: a write that fails is not a failed ping.
DogPingIgnoresRefusal == dog = "ping" /\ DogSends("PING", "pong", "rest")

DogPing == dog = "ping" /\ DogSends("PING", "pong", "close")

\* A mistake of DogPong: any answer passes for a PONG.
DogPongTakesAny ==
  /\ dog = "pong"
  /\ \/ (\E r \in Replies : Answered("dog", r)) /\ GoTo("rest")
     \/ Failed("dog") /\ GoTo("close")
  /\ UNCHANGED <<mClient, serverVars>>

\* Any answer but PONG counts as a failed ping and starts restart.
DogPong ==
  /\ dog = "pong"
  /\ \/ \E r \in Replies :
          Answered("dog", r) /\ GoTo(IF r = "PONG" THEN "rest" ELSE "close")
     \/ Failed("dog") /\ GoTo("close")
  /\ UNCHANGED <<mClient, serverVars>>

\* restart, under m.mu: close the client and forget it.
DogClose ==
  /\ dog = "close"
  /\ Close(mClient)
  /\ mClient' = 0
  /\ GoTo("start")
  /\ UNCHANGED serverVars

DogLaunch == dog = "start" /\ Launch /\ GoTo("dial") /\ UNCHANGED mClient

\* Start cannot extract or run the executable: restart gives up.
DogLaunchFails ==
  /\ dog = "start" /\ failures < MaxFailures
  /\ failures' = failures + 1
  /\ dog' = "rest"
  /\ UNCHANGED <<mClient, desired, ipcVars, serverVars>>

\* A mistake of DogDial: the new client is not stored.
DogDialForgets ==
  /\ dog = "dial" /\ alive
  /\ Dial
  /\ GoTo("restore")
  /\ UNCHANGED <<mClient, serverVars>>

DogDial ==
  /\ dog = "dial" /\ alive
  /\ Dial
  /\ mClient' = dials'
  /\ GoTo("restore")
  /\ UNCHANGED serverVars

\* Connect has no retry left: restart gives up.  It does when there is no
\* sentinel, and may when the pipe is busy for too long.
DogDialFails ==
  /\ dog = "dial"
  /\ \/ ~alive /\ failures' = failures
     \/ alive /\ failures < MaxFailures /\ failures' = failures + 1
  /\ dog' = "rest"
  /\ UNCHANGED <<mClient, desired, ipcVars, serverVars>>

DogRestore ==
  /\ dog = "restore"
  /\ GoTo(IF desired THEN "relock" ELSE "adopt")
  /\ UNCHANGED <<mClient, ipcVars, serverVars>>

DogRelock == dog = "relock" /\ DogSends("LOCK", "relocked", "adopt")

\* An answer to a restoring call is only logged when it is an error.
DogHears(from, next) ==
  /\ dog = from
  /\ Failed("dog") \/ \E r \in Replies : Answered("dog", r)
  /\ GoTo(next)
  /\ UNCHANGED <<mClient, serverVars>>

DogRelocked == DogHears("relocked", "adopt")

\* The rest of main.go's onRestart, after the controller took the client.
DogCombo   == dog = "combo" /\ DogSends("SET_COMBO", "confirm", "rest")
DogConfirm == DogHears("confirm", "rest")

ManagerTypeOK ==
  /\ dog \in DogSteps
  /\ mClient \in 0..dials
  /\ desired \in BOOLEAN
  /\ failures \in 0..MaxFailures

ManagerInit == dog = "rest" /\ mClient = 1 /\ desired = FALSE /\ failures = 0
=============================================================================
