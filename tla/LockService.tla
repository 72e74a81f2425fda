---------------------------- MODULE LockService ----------------------------
(***************************************************************************)
(* What the running program promises about the lock, without goroutines,   *)
(* pipes and mutexes: a keyboard, the program's record of its state, and   *)
(* one command at a time that changes first the one and then the other.    *)
(* The keyboard may unlock itself at any time; it locks itself only after  *)
(* a fault, when a restart puts a lock back.                               *)
(***************************************************************************)

VARIABLES
  kbd,       \* the keyboard is locked
  record,    \* the state the program believes in
  call,      \* the command in progress: "LOCK", "UNLOCK" or "none"
  done,      \* that command has taken effect on the keyboard
  seen,      \* somebody has found the keyboard unlocked and may still act on it
  crashed,   \* the sentinel has died
  lossy      \* a command has been given up before it was answered

vars == <<kbd, record, call, done, seen, crashed, lossy>>

Faulty == crashed \/ lossy

-----------------------------------------------------------------------------

\* A command that would change the record.  Without a lost answer to confuse it
\* with, it is not done before it acts.
Ask(o) ==
  /\ call = "none" /\ record # (o = "LOCK")
  /\ call' = o
  /\ done' \in (IF lossy THEN BOOLEAN ELSE {FALSE})
  /\ UNCHANGED <<kbd, record, seen, crashed, lossy>>

Act ==
  /\ call # "none" /\ ~done
  /\ kbd' = (call = "LOCK") /\ done' = TRUE
  /\ UNCHANGED <<record, call, seen, crashed, lossy>>

\* Only a command that is done changes the record.
Answer ==
  /\ done
  /\ record' = (call = "LOCK")
  /\ call' = "none" /\ done' = FALSE
  /\ UNCHANGED <<kbd, seen, crashed, lossy>>

\* No command fails unless something has gone wrong before.
Fail ==
  /\ Faulty /\ call # "none"
  /\ call' = "none" /\ done' = FALSE
  /\ UNCHANGED <<kbd, record, seen, crashed, lossy>>

\* Without a command the record changes only to "unlocked", and only when the
\* keyboard has been found unlocked.
See ==
  /\ ~kbd /\ seen' = TRUE
  /\ UNCHANGED <<kbd, record, call, done, crashed, lossy>>

Forget ==
  /\ seen' = FALSE
  /\ UNCHANGED <<kbd, record, call, done, crashed, lossy>>

Correct ==
  /\ seen /\ call = "none"
  /\ record' = FALSE /\ seen' = FALSE
  /\ UNCHANGED <<kbd, call, done, crashed, lossy>>

SelfUnlock ==
  /\ kbd /\ kbd' = FALSE
  /\ UNCHANGED <<record, call, done, seen, crashed, lossy>>

Restore ==
  /\ Faulty /\ kbd' = TRUE
  /\ UNCHANGED <<record, call, done, seen, crashed, lossy>>

\* An effect or an observation whose answer is on its way is lost.
Crash ==
  /\ crashed' = TRUE /\ kbd' = FALSE
  /\ done' \in {done, FALSE} /\ seen' \in {seen, FALSE}
  /\ UNCHANGED <<record, call, lossy>>

Lose ==
  /\ lossy' = TRUE
  /\ \/ UNCHANGED <<call, done>>
     \/ call' = "none" /\ done' = FALSE
  /\ seen' \in {seen, FALSE}
  /\ UNCHANGED <<kbd, record, crashed>>

\* What was given up may still be executed, and its answer be taken for another.
Late ==
  /\ lossy
  /\ kbd' \in BOOLEAN /\ seen' \in BOOLEAN
  /\ done' \in (IF call = "none" THEN {FALSE} ELSE BOOLEAN)
  /\ UNCHANGED <<record, call, crashed, lossy>>

\* Start-up may have given up a call of its own.
Init ==
  /\ kbd \in BOOLEAN /\ record = FALSE
  /\ call = "none" /\ done = FALSE /\ seen = FALSE
  /\ crashed = FALSE /\ lossy \in BOOLEAN

Next ==
  \/ \E o \in {"LOCK", "UNLOCK"} : Ask(o)
  \/ Act \/ Answer \/ Fail
  \/ See \/ Forget \/ Correct
  \/ SelfUnlock \/ Restore
  \/ Crash \/ Lose \/ Late

Spec == Init /\ [][Next]_vars
=============================================================================
