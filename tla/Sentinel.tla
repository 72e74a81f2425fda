----------------------------- MODULE Sentinel -----------------------------
(***************************************************************************)
(* The sentinel process from the inside (sentinel/*.cpp): the main thread, *)
(* whose message loop runs the keyboard hook and the heartbeat timer, and  *)
(* the pipe thread, which executes the controller's commands.  The two     *)
(* share g_locked, g_lastPingTime and the unlock combo.                    *)
(*                                                                         *)
(* One tick of time is one period of the heartbeat timer.  A time stamp is *)
(* kept as its age, and an age stops at the value from which on it makes   *)
(* no difference.  The main thread is assumed to keep up: it dispatches    *)
(* the timer message of a period before the next period is over.           *)
(***************************************************************************)
EXTENDS Naturals, Sequences

CONSTANTS
  Keys,            \* the keys that are touched
  Combos,          \* the unlock combos that controllers are configured with, as
                   \* sequences of virtual-key codes
  MaxComboKeys,    \* kMaxComboKeys
  HeartbeatTicks,  \* kHeartbeatTimeoutMs, in ticks
  EscTicks,        \* kEscHoldSeconds, in ticks
  MaxReturns       \* bound: how often a new controller connects

ComboCodes == UNION {{c[i] : i \in 1..Len(c)} : c \in Combos}

ASSUME KeysAssumption == "none" \notin Keys
ASSUME CombosAssumption == Combos \subseteq Seq(ComboCodes) /\ MaxComboKeys \in Nat
ASSUME TicksAssumption == HeartbeatTicks \in Nat /\ EscTicks \in Nat
ASSUME ReturnsAssumption == MaxReturns \in Nat

\* The code a low-level hook is given: modifiers come with their side.
Code(k) == CASE k = "CTRL"  -> "LCONTROL"
             [] k = "SHIFT" -> "LSHIFT"
             [] k = "ALT"   -> "LMENU"
             [] OTHER       -> k

Codes == {Code(k) : k \in Keys}

\* The codes that the emergency combo looks for (hook.cpp).
EmergencyCodes == {"CONTROL", "SHIFT", "MENU", "F12"}

VARIABLES
  locked,      \* g_locked
  pinged,      \* g_lastPingTime is not 0 ...
  age,         \* ... and this old
  comboKeys,   \* s_comboKeys, "none" for 0
  comboCount,  \* s_comboCount
  setting,     \* the codes that SET_COMBO is writing, <<>> if it is not ...
  written,     \* ... and how many of them it has written
  inForce,     \* the combo that the last SET_COMBO has set (history)
  down,        \* s_keysDown: the codes marked as pressed
  escSince,    \* s_escDownSince is not 0 ...
  escAge,      \* ... and this old
  count,       \* IsUnlockComboPressed: s_comboCount as it has been loaded ...
  checked,     \* ... and the keys that it has found pressed
  met,         \* the combos in force or being written since it began (history)
  main,        \* the main thread: in its loop, in a callback, or about to unlock
  due,         \* the timer message of this period waits to be dispatched
  pipe,        \* the pipe thread: reading, or in the middle of a command
  running,     \* the main thread is in its message loop
  wmQuit,      \* the threads to whose queue a WM_QUIT was posted
  held,        \* the keys that are physically down
  repeating,   \* the key whose key-down events the keyboard repeats
  ctl,         \* a controller is connected and sends commands
  config,      \* the combo that this controller, or the last one, is configured with
  returns      \* number of controllers that have connected later

heartVars == <<pinged, age>>
comboVars == <<comboKeys, comboCount, setting, written, inForce>>
lookVars  == <<count, checked, met>>
hookVars  == <<down, escSince, escAge>>
handVars  == <<held, repeating>>
procVars  == <<running, wmQuit, ctl, config, returns>>
vars == <<locked, heartVars, comboVars, hookVars, lookVars, main, due, pipe, handVars,
          procVars>>

-----------------------------------------------------------------------------
(* The hook: one call of LowLevelKeyboardProc per key event. *)

EmergencyComboPressed(d) == EmergencyCodes \subseteq d

\* Mistakes of Hook: the release of ESC does not end the hold; every key-down of
\* ESC starts it anew.
HookForgetsRelease(code, isDown) ==
  /\ running /\ main = "loop"
  /\ down' = (IF isDown THEN down \cup {code} ELSE down \ {code})
  /\ escSince' = (escSince \/ (code = "ESC" /\ isDown))
  /\ escAge' = escAge
  /\ main' = IF ~locked THEN "loop"
             ELSE IF EmergencyComboPressed(down') THEN "unlock" ELSE "count"
  /\ UNCHANGED <<locked, heartVars, comboVars, lookVars, due, pipe, procVars>>

HookRestartsHold(code, isDown) ==
  /\ running /\ main = "loop"
  /\ down' = (IF isDown THEN down \cup {code} ELSE down \ {code})
  /\ escSince' = (IF code # "ESC" THEN escSince ELSE isDown)
  /\ escAge' = (IF code = "ESC" THEN 0 ELSE escAge)
  /\ main' = IF ~locked THEN "loop"
             ELSE IF EmergencyComboPressed(down') THEN "unlock" ELSE "count"
  /\ UNCHANGED <<locked, heartVars, comboVars, lookVars, due, pipe, procVars>>

\* The callback up to IsUnlockComboPressed: it marks the key, tracks ESC, and when
\* the keyboard is locked it looks for a condition to unlock.
Hook(code, isDown) ==
  /\ running /\ main = "loop"
  /\ down' = (IF isDown THEN down \cup {code} ELSE down \ {code})
  /\ escSince' = (IF code # "ESC" THEN escSince ELSE isDown)
  /\ escAge' = (IF escSince /\ escSince' THEN escAge ELSE 0)
  /\ main' = IF ~locked THEN "loop"
             ELSE IF EmergencyComboPressed(down') THEN "unlock" ELSE "count"
  /\ UNCHANGED <<locked, heartVars, comboVars, lookVars, due, pipe, procVars>>

\* IsUnlockComboPressed says no: what is left to look at is the hold of ESC.
EscHeldLongEnough == "ESC" \in down /\ escSince /\ escAge >= EscTicks

AfterCombo == main' = (IF EscHeldLongEnough THEN "unlock" ELSE "loop")

Forget == count' = 0 /\ checked' = 0 /\ met' = {}

\* IsUnlockComboPressed loads s_comboCount ...
LookAtCount ==
  /\ main = "count"
  /\ IF comboCount < 2
     THEN AfterCombo /\ UNCHANGED lookVars
     ELSE /\ count' = comboCount /\ checked' = 0
          /\ met' = {inForce} \cup (IF pipe = "combo" THEN {setting} ELSE {})
          /\ main' = "combo"
  /\ UNCHANGED <<locked, heartVars, comboVars, hookVars, due, pipe, handVars, procVars>>

\* ... and then one key after the other.  These are plain loads of what another
\* thread writes: the build may load the count again for each key, or not.
LookAtKeys ==
  /\ main = "combo"
  /\ \E n \in {count, comboCount} :
       IF checked < n
       THEN IF comboKeys[checked + 1] \in down
            THEN count' = n /\ checked' = checked + 1 /\ UNCHANGED <<main, met>>
            ELSE AfterCombo /\ Forget
       ELSE main' = "unlock" /\ Forget
  /\ UNCHANGED <<locked, heartVars, comboVars, hookVars, due, pipe, handVars, procVars>>

Press(k) ==
  /\ k \notin held
  /\ held' = held \cup {k} /\ repeating' = k
  /\ Hook(Code(k), TRUE)

Release(k) ==
  /\ k \in held
  /\ held' = held \ {k}
  /\ repeating' = (IF repeating = k THEN "none" ELSE repeating)
  /\ Hook(Code(k), FALSE)

\* A key that is held down repeats until it, or another key after it, moves.
Repeat ==
  /\ repeating # "none"
  /\ Hook(Code(repeating), TRUE)
  /\ UNCHANGED handVars

\* DoUnlock: the flag, then ClearKeyState.
DoUnlock ==
  /\ main = "unlock"
  /\ locked' = FALSE
  /\ down' = {} /\ escSince' = FALSE /\ escAge' = 0
  /\ main' = "loop"
  /\ UNCHANGED <<heartVars, comboVars, lookVars, due, pipe, handVars, procVars>>

-----------------------------------------------------------------------------
(* The message loop and the heartbeat timer. *)

\* The loop ends on a WM_QUIT in the queue of its own thread; otherwise it
\* dispatches the timer, and HeartbeatTimerProc reads the flag.
MessageLoop ==
  /\ running /\ main = "loop"
  /\ IF "main" \in wmQuit
     THEN running' = FALSE /\ UNCHANGED <<main, due>>
     ELSE /\ due /\ due' = FALSE
          /\ main' = (IF locked THEN "timer" ELSE "loop")
          /\ UNCHANGED running
  /\ UNCHANGED <<locked, heartVars, comboVars, hookVars, lookVars, pipe, handVars,
                 wmQuit, ctl, config, returns>>

\* Then it reads the time of the last ping ...
HeartbeatTimerProc ==
  /\ main = "timer"
  /\ main' = (IF pinged /\ age > HeartbeatTicks THEN "expire" ELSE "loop")
  /\ UNCHANGED <<locked, heartVars, comboVars, hookVars, lookVars, due, pipe, handVars,
                 procVars>>

\* ... and clears the flag.
HeartbeatUnlock ==
  /\ main = "expire"
  /\ locked' = FALSE
  /\ main' = "loop"
  /\ UNCHANGED <<heartVars, comboVars, hookVars, lookVars, due, pipe, handVars, procVars>>

Cap(n, top) == IF n < top THEN n + 1 ELSE top

Tick ==
  /\ running /\ main = "loop" /\ ~due
  /\ due' = TRUE
  /\ age' = (IF pinged THEN Cap(age, HeartbeatTicks + 1) ELSE age)
  /\ escAge' = (IF escSince THEN Cap(escAge, EscTicks) ELSE escAge)
  /\ UNCHANGED <<locked, pinged, comboVars, down, escSince, lookVars, main, pipe,
                 handVars, procVars>>

-----------------------------------------------------------------------------
(* The pipe thread: ProcessCommand, one store at a time. *)

Receives == ctl /\ pipe = "read"

\* A mistake of Lock: the time of the heartbeat is not stored.
LockWithoutStamp ==
  /\ Receives
  /\ locked' = TRUE
  /\ UNCHANGED <<heartVars, comboVars, hookVars, lookVars, main, due, pipe, handVars, procVars>>

\* LOCK stores the flag first and the time of the heartbeat after it.
Lock ==
  /\ Receives
  /\ locked' = TRUE
  /\ pipe' = "locking"
  /\ UNCHANGED <<heartVars, comboVars, hookVars, lookVars, main, due, handVars, procVars>>

\* The end of LOCK, and the whole of PING.
Stamp ==
  /\ Receives \/ pipe = "locking"
  /\ pinged' = TRUE /\ age' = 0
  /\ pipe' = "read"
  /\ UNCHANGED <<locked, comboVars, hookVars, lookVars, main, due, handVars, procVars>>

Unlock ==
  /\ Receives
  /\ locked' = FALSE
  /\ UNCHANGED <<heartVars, comboVars, hookVars, lookVars, main, due, pipe, handVars, procVars>>

\* What HandleSetCombo takes of a combo: the first MaxComboKeys codes.
Taken(c) == SubSeq(c, 1, IF Len(c) < MaxComboKeys THEN Len(c) ELSE MaxComboKeys)

\* SET_COMBO.  Fewer than two codes are answered with ERROR, and change nothing.
HandleSetCombo ==
  /\ Receives
  /\ Len(Taken(config)) >= 2
  /\ setting' = Taken(config) /\ written' = 0
  /\ met' = (IF main = "combo" THEN met \cup {setting'} ELSE met)
  /\ pipe' = "combo"
  /\ UNCHANGED <<locked, heartVars, comboKeys, comboCount, inForce, hookVars, count,
                 checked, main, due, handVars, procVars>>

\* SetUnlockCombo writes the keys one by one over the combo in force ...
WriteComboKey ==
  /\ pipe = "combo" /\ written < Len(setting)
  /\ comboKeys' = [comboKeys EXCEPT ![written + 1] = setting[written + 1]]
  /\ written' = written + 1
  /\ UNCHANGED <<locked, heartVars, comboCount, setting, inForce, hookVars, lookVars,
                 main, due, pipe, handVars, procVars>>

\* Mistakes of WriteComboCount: the count is set for the first combo only; it is
\* added to.
WriteComboCountOnce ==
  /\ pipe = "combo" /\ written = Len(setting)
  /\ comboCount' = (IF comboCount = 0 THEN Len(setting) ELSE comboCount)
  /\ inForce' = setting /\ setting' = <<>> /\ written' = 0 /\ pipe' = "read"
  /\ UNCHANGED <<locked, heartVars, comboKeys, hookVars, lookVars, main, due, handVars,
                 procVars>>

WriteComboCountAdds ==
  /\ pipe = "combo" /\ written = Len(setting)
  /\ comboCount' = comboCount + Len(setting)
  /\ inForce' = setting /\ setting' = <<>> /\ written' = 0 /\ pipe' = "read"
  /\ UNCHANGED <<locked, heartVars, comboKeys, hookVars, lookVars, main, due, handVars,
                 procVars>>

\* ... and their count last, while the hook may be reading them.
WriteComboCount ==
  /\ pipe = "combo" /\ written = Len(setting)
  /\ comboCount' = Len(setting)
  /\ inForce' = setting /\ setting' = <<>> /\ written' = 0 /\ pipe' = "read"
  /\ UNCHANGED <<locked, heartVars, comboKeys, hookVars, lookVars, main, due, handVars,
                 procVars>>

SetUnlockCombo == WriteComboKey \/ WriteComboCount

\* QUIT: PostQuitMessage posts to the queue of the thread that calls it.
Quit ==
  /\ Receives
  /\ wmQuit' = wmQuit \cup {"pipe"}
  /\ UNCHANGED <<locked, heartVars, comboVars, hookVars, lookVars, main, due, pipe, handVars,
                 running, ctl, config, returns>>

-----------------------------------------------------------------------------
(* The controller at the other end. *)

ControllerDies ==
  /\ ctl
  /\ ctl' = FALSE
  /\ UNCHANGED <<locked, heartVars, comboVars, hookVars, lookVars, main, due, pipe,
                 handVars, running, wmQuit, config, returns>>

\* Another controller, perhaps with another combo, finds the pipe when the thread
\* has finished the command of the one before.
ControllerReturns ==
  /\ ~ctl /\ pipe = "read" /\ returns < MaxReturns
  /\ ctl' = TRUE /\ config' \in Combos /\ returns' = returns + 1
  /\ UNCHANGED <<locked, heartVars, comboVars, hookVars, lookVars, main, due, pipe,
                 handVars, running, wmQuit>>

-----------------------------------------------------------------------------

Init ==
  /\ locked = FALSE /\ pinged = FALSE /\ age = 0
  /\ comboKeys = [i \in 1..MaxComboKeys |-> "none"] /\ comboCount = 0
  /\ setting = <<>> /\ written = 0 /\ inForce = <<>>
  /\ count = 0 /\ checked = 0 /\ met = {}
  /\ down = {} /\ escSince = FALSE /\ escAge = 0
  /\ main = "loop" /\ due = FALSE /\ pipe = "read"
  /\ running = TRUE /\ wmQuit = {}
  /\ ctl = TRUE /\ config \in Combos /\ returns = 0
  /\ held = {} /\ repeating = "none"

Hand == \E k \in Keys : Press(k) \/ Release(k)

IsUnlockComboPressed == LookAtCount \/ LookAtKeys

PipeThread == Lock \/ Stamp \/ Unlock \/ HandleSetCombo \/ SetUnlockCombo \/ Quit

Next ==
  \/ Hand \/ Repeat \/ IsUnlockComboPressed \/ DoUnlock
  \/ MessageLoop \/ HeartbeatTimerProc \/ HeartbeatUnlock \/ Tick
  \/ PipeThread
  \/ ControllerDies \/ ControllerReturns

Spec == Init /\ [][Next]_vars

\* Time passes, both threads run, and a key that is held repeats.  Fairness is
\* strong where another event may keep the thread busy for a moment.  No command
\* has to arrive and nobody has to touch a key.
Fairness ==
  /\ SF_vars(Tick) /\ SF_vars(MessageLoop) /\ SF_vars(Repeat)
  /\ WF_vars(IsUnlockComboPressed) /\ WF_vars(DoUnlock)
  /\ WF_vars(HeartbeatTimerProc) /\ WF_vars(HeartbeatUnlock)
  /\ WF_vars(pipe # "read" /\ PipeThread)

FairSpec == Spec /\ Fairness

-----------------------------------------------------------------------------
(* Properties. *)

TypeOK ==
  /\ locked \in BOOLEAN /\ pinged \in BOOLEAN /\ age \in 0..(HeartbeatTicks + 1)
  /\ comboKeys \in [1..MaxComboKeys -> ComboCodes \cup {"none"}]
  /\ comboCount \in 0..MaxComboKeys /\ count \in 0..MaxComboKeys
  /\ written \in 0..MaxComboKeys /\ checked \in 0..MaxComboKeys
  /\ setting \in Seq(ComboCodes) /\ inForce \in Seq(ComboCodes)
  /\ met \subseteq Seq(ComboCodes)
  /\ down \subseteq Codes
  /\ escSince \in BOOLEAN /\ escAge \in 0..EscTicks
  /\ main \in {"loop", "count", "combo", "unlock", "timer", "expire"}
  /\ due \in BOOLEAN
  /\ pipe \in {"read", "locking", "combo"}
  /\ running \in BOOLEAN /\ wmQuit \subseteq {"main", "pipe"}
  /\ held \subseteq Keys /\ repeating \in Keys \cup {"none"}
  /\ ctl \in BOOLEAN /\ config \in Combos /\ returns \in 0..MaxReturns

\* The keyboard stays locked for at most one period past the heartbeat timeout
\* after the last LOCK or PING: no interleaving of the two threads leaves a lock
\* without a time stamp or a stale one unnoticed (main.cpp HeartbeatTimerProc,
\* pipe.cpp ProcessCommand).
HeartbeatBound ==
  locked /\ pipe # "locking" =>
    /\ pinged
    /\ age <= HeartbeatTicks \/ due \/ main \in {"timer", "expire"}

\* If the controller dies, the keyboard is unlocked, unless a new controller
\* takes over (README: "Fail-open design").
FailOpen == (locked /\ ~ctl) ~> (~locked \/ ctl)

\* The bitmap of pressed keys shows no key that is up, so no combo is completed
\* by a key that was released, whatever ClearKeyState and the lock did meanwhile.
BitmapSound ==
  /\ down \subseteq {Code(k) : k \in held}
  /\ escSince => "ESC" \in down

\* The unlock conditions that no combo explains.
EscUnlocks == "ESC" \in held /\ escAge >= EscTicks

\* The hook decides to unlock only for a long held ESC or for a whole combo: the one
\* in force, and no key of it less, as long as no SET_COMBO has been executed since it
\* began to look; and if one has, for keys that are, place by place, those of the
\* combos in force or being written meanwhile, and as many of them as one of these
\* has.  What an earlier, longer combo has left behind never counts
\* (hook.cpp IsUnlockComboPressed, SetUnlockCombo).
UnlockIntended ==
  [][main # "unlock" /\ main' = "unlock" =>
       \/ EscUnlocks
       \/ \E c \in met :
            /\ Len(c) >= 2
            /\ \A i \in 1..Len(c) : \E o \in met : i <= Len(o) /\ o[i] \in down]_vars

\* Holding ESC unlocks a locked keyboard (README, path 3), as long as no other key
\* moves: the hold is looked at only when ESC repeats.
EscHoldUnlocks ==
  (locked /\ repeating = "ESC") ~> (~locked \/ repeating # "ESC")

\* Pressing the emergency combo unlocks (README, path 2).
EmergencyUnlocks ==
  [][/\ locked /\ main = "loop" /\ repeating' # repeating
     /\ {"CTRL", "SHIFT", "ALT", "F12"} \subseteq held'
     => main' = "unlock"]_vars

-----------------------------------------------------------------------------
(* The sentinel implements Lease. *)

LeaseTerm == HeartbeatTicks + 1

OnLease == INSTANCE Lease WITH
  Term  <- LeaseTerm,
  kbd   <- locked,
  left  <- IF pipe = "locking" THEN LeaseTerm
           ELSE IF pinged THEN LeaseTerm - age ELSE 0,
  busy  <- pipe = "locking",
  begun <- due

\* However the pipe thread's stores and the timer's loads interleave, a lock is on
\* lease: only a connected controller takes it or renews it, and when nothing has
\* come from one for LeaseTerm periods, the keyboard is unlocked before another
\* period begins (pipe.cpp ProcessCommand, main.cpp HeartbeatTimerProc).
ImplementsLease == OnLease!Spec
=============================================================================
