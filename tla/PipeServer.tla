---------------------------- MODULE PipeServer ----------------------------
(***************************************************************************)
(* The sentinel process as its pipe shows it: the thread of pipe.cpp that  *)
(* reads one request at a time, the lock flag it shares with the hook, and *)
(* the ways in which the flag is cleared or the process dies without a     *)
(* request of the controller.                                              *)
(***************************************************************************)
EXTENDS Ipc

CONSTANT MaxCrashes   \* bound: how often the sentinel may die unasked

ASSUME CrashesAssumption == MaxCrashes \in Nat

VARIABLES
  alive,     \* a sentinel process runs (its global mutex admits only one)
  kbd,       \* g_locked: the hook swallows every key
  combo,     \* a configured unlock combo has been set (s_comboCount >= 2)
  crashes    \* number of unasked deaths so far

serverVars == <<alive, kbd, combo, crashes>>

-----------------------------------------------------------------------------

\* The state of the lock after a command.
LockAfter(cmd) ==
  CASE cmd = "LOCK"   -> TRUE
    [] cmd = "UNLOCK" -> FALSE
    [] OTHER          -> kbd

ReplyTo(cmd) ==
  CASE cmd = "PING"   -> "PONG"
    [] cmd = "STATUS" -> IF kbd THEN "LOCKED" ELSE "UNLOCKED"
    [] OTHER          -> "OK"

\* One turn of the read loop.  Requests written before the client hung up are
\* still read and executed; their answers are lost.
Serve ==
  /\ live # 0 /\ req # <<>>
  /\ req'   = Tail(req)
  /\ resp'  = IF hungup THEN resp ELSE Append(resp, ReplyTo(Head(req)))
  /\ kbd'   = LockAfter(Head(req))
  /\ combo' = (combo \/ Head(req) = "SET_COMBO")
  /\ UNCHANGED <<live, dials, hungup, using, timeouts, alive, crashes>>

\* ReadFile fails because the client closed its end: disconnect the instance
\* and wait on a new one.
SeesHangup ==
  /\ live # 0 /\ hungup /\ req = <<>>
  /\ live' = 0 /\ hungup' = FALSE /\ resp' = <<>>
  /\ UNCHANGED <<dials, req, using, timeouts, serverVars>>

\* The hook (combo or ESC hold) or the heartbeat timer clears the lock.
SelfUnlock ==
  /\ kbd
  /\ kbd' = FALSE
  /\ UNCHANGED <<ipcVars, alive, combo, crashes>>

\* The process is killed.  The lock and the combo live in its memory, and the
\* pipe instance goes with it.
Crash ==
  /\ alive /\ crashes < MaxCrashes
  /\ crashes' = crashes + 1
  /\ alive' = FALSE /\ kbd' = FALSE /\ combo' = FALSE
  /\ live' = 0 /\ hungup' = FALSE /\ req' = <<>> /\ resp' = <<>>
  /\ UNCHANGED <<dials, using, timeouts>>

\* A process is started.  If the old one still holds the sentinel's mutex, the
\* new one exits at once and the old one, with its lock, stays.
Launch ==
  /\ alive' = TRUE
  /\ UNCHANGED <<ipcVars, kbd, combo, crashes>>

ServerTypeOK ==
  /\ alive \in BOOLEAN /\ kbd \in BOOLEAN /\ combo \in BOOLEAN
  /\ crashes \in 0..MaxCrashes
=============================================================================
