------------------------------- MODULE Lease -------------------------------
(***************************************************************************)
(* What the sentinel promises to the person at the keyboard, without hook, *)
(* time stamps and threads: the keyboard is locked on a lease.  Only the   *)
(* controller takes or renews it, each of its words is good for Term       *)
(* periods, anything may end it early, and no period begins with a locked  *)
(* keyboard whose lease has run out.                                       *)
(***************************************************************************)
EXTENDS Naturals

CONSTANT Term   \* what a word of the controller is worth, in periods

VARIABLES
  kbd,     \* the keyboard is locked
  left,    \* periods that the lease has left
  busy,    \* a LOCK is being executed
  begun,   \* a period has begun and its end has not been looked at
  ctl      \* a controller is connected

vars == <<kbd, left, busy, begun, ctl>>

-----------------------------------------------------------------------------

Lock ==
  /\ ctl /\ ~busy
  /\ kbd' = TRUE /\ left' = Term /\ busy' = TRUE
  /\ UNCHANGED <<begun, ctl>>

Locked ==
  /\ busy /\ busy' = FALSE
  /\ UNCHANGED <<kbd, left, begun, ctl>>

Renew ==
  /\ ctl /\ ~busy
  /\ left' = Term
  /\ UNCHANGED <<kbd, busy, begun, ctl>>

Unlock ==
  /\ kbd' = FALSE
  /\ UNCHANGED <<left, busy, begun, ctl>>

\* Time passes.  A lease begins to run when its LOCK has been executed.
BeginPeriod ==
  /\ ~begun /\ begun' = TRUE
  /\ kbd => left > 0
  /\ left' = (IF busy \/ left = 0 THEN left ELSE left - 1)
  /\ UNCHANGED <<kbd, busy, ctl>>

EndPeriod ==
  /\ begun /\ begun' = FALSE
  /\ UNCHANGED <<kbd, left, busy, ctl>>

\* A controller goes, or another one comes.
Change ==
  /\ ctl' = ~ctl
  /\ UNCHANGED <<kbd, left, busy, begun>>

Init == kbd = FALSE /\ left = 0 /\ busy = FALSE /\ begun = FALSE /\ ctl = TRUE

Next ==
  \/ Lock \/ Locked \/ Renew \/ Unlock
  \/ BeginPeriod \/ EndPeriod \/ Change

Spec == Init /\ [][Next]_vars
=============================================================================
